---- MODULE Spec2Model ----
(***************************************************************************)
(* A model of the dynamic position sizer's screening core:                 *)
(*   - data/cache_manager.py        the TTL file cache                     *)
(*   - screeners/screener_manager.py  ScreenerManager.run_screen           *)
(*   - indicators/analyst_scoring.py  AnalystScoring                       *)
(* Floats are modelled as exact rationals <<numerator, denominator>>.      *)
(***************************************************************************)
EXTENDS Integers, Sequences, FiniteSets, TLC

VARIABLES
    \* ---- cache_manager.py -------------------------------------------------
    files,      \* the cache directory: key -> content of its backing file
    now,        \* datetime.now(), in whole hours
    hits,       \* CacheManager.hits
    misses,     \* CacheManager.misses
    sets,       \* CacheManager.sets
    ret,        \* the last completed cache call and what it returned
    hist,       \* per key: the last set call that wrote under the key
    ncalls,     \* number of cache calls issued so far
    th,         \* threads inside CacheManager.get / CacheManager.set
    \* ---- analyst_scoring.py -----------------------------------------------
    aCfg,       \* the AnalystScoring instance (normalised weights, bounds)
    aIn,        \* the arguments of calculate_score
    aOut,       \* the AnalystScore it returned
    \* ---- screener_manager.py ----------------------------------------------
    pc,         \* where run_screen is
    market,     \* ticker -> what the data source has for it
    args,       \* the arguments of run_screen, each fixed when first read
    tickers,    \* the local variable tickers
    pending,    \* tickers whose fetch future has not completed
    fundamentals,       \* the dict _fetch_fundamentals_parallel fills
    results_by_ticker,  \* the ScreenOutput objects, in insertion order
    summary,    \* the ScreenSummary returned
    manager,    \* the ScreenerManager: universe_name, max_workers
    futures,    \* future_to_ticker: the state of each ticker's future
    completed,  \* the local variable completed of the fetch loop
    calls,      \* calls made so far on the providers and on the callback
    \* ---- trailing_stop.py, stop_recommender.py, atr.py, volatility_regime.py
    fn,         \* a call of one of the pure functions: its name and arguments
    fout,       \* what the call returned or raised
    \* ---- fundamentals_provider.py -----------------------------------------
    source,     \* what the market-data source has for the ticker right now
    prov,       \* the FundamentalsProvider and what its calls did
    \* ---- screener_manager.py: the fetch of a long universe ----------------
    pool,       \* the tasks of _fetch_fundamentals_parallel, counted by state
    \* ---- cache_manager.py: the singleton ----------------------------------
    cm          \* CacheManager._instance: whether __init__ ran, and its sweeps

cacheVars == <<files, now, hits, misses, sets, ret, hist, ncalls, th>>

analystVars == <<aCfg, aIn, aOut>>

screenVars == <<pc, market, args, tickers, pending, fundamentals,
                results_by_ticker, summary, manager, futures, completed,
                calls>>

pureVars == <<fn, fout>>

provVars == <<source, prov>>

poolVars == <<pool>>

cmVars == <<cm>>

\* what the operations of one component leave alone
nonCacheVars ==
    <<analystVars, screenVars, pureVars, provVars, poolVars, cmVars>>

nonAnalystVars ==
    <<cacheVars, screenVars, pureVars, provVars, poolVars, cmVars>>

nonScreenVars ==
    <<cacheVars, analystVars, pureVars, provVars, poolVars, cmVars>>

nonPureVars ==
    <<cacheVars, analystVars, screenVars, provVars, poolVars, cmVars>>

vars ==
    <<cacheVars, analystVars, screenVars, pureVars, provVars, poolVars, cmVars>>

(***************************************************************************)
(* Bounds of the model.                                                    *)
(***************************************************************************)
MaxCalls == 3       \* cache calls per behaviour
MaxTime == 2        \* hours the clock may advance
MaxTtl == 2         \* largest ttl passed to set
NChunks == 2        \* buffer flushes json.dump needs for one entry
NThreads == 2       \* threads calling into the cache at once


(***************************************************************************)
(* Exact rational arithmetic for the code's floats: <<n, d>> with d > 0,   *)
(* in lowest terms.  <<0, 0>> stands for Python's None.                    *)
(***************************************************************************)
RECURSIVE Gcd(_, _)
Gcd(a, b) == IF b = 0 THEN a ELSE Gcd(b, a % b)

Abs(x) == IF x < 0 THEN -x ELSE x

Rat(n, d) ==
    LET g == Gcd(Abs(n), Abs(d))
        sgn == IF d < 0 THEN -1 ELSE 1
    IN  <<(sgn * n) \div g, (sgn * d) \div g>>

R(i) == <<i, 1>>
NoneR == <<0, 0>>
IsNone(x) == x[2] = 0

RAdd(a, b) == Rat(a[1] * b[2] + b[1] * a[2], a[2] * b[2])
RSub(a, b) == Rat(a[1] * b[2] - b[1] * a[2], a[2] * b[2])
RMul(a, b) == Rat(a[1] * b[1], a[2] * b[2])
RDiv(a, b) == Rat(a[1] * b[2], a[2] * b[1])

\* a < b, a <= b: the denominators are reduced by their common factor first
RLt(a, b) ==
    LET g == Gcd(a[2], b[2]) IN a[1] * (b[2] \div g) < b[1] * (a[2] \div g)
RLe(a, b) == ~RLt(b, a)
RMax(a, b) == IF RLt(a, b) THEN b ELSE a
RMin(a, b) == IF RLt(b, a) THEN b ELSE a

(***************************************************************************)
(* cache_manager.py: keys, values, entries and files.                      *)
(***************************************************************************)
Keys == {"fundamentals:AAPL", "universe:sp500"}

\* Values handed to set: a JSON-native payload, a tuple (serialised as a JSON
\* array, hence read back as a list) and an object json cannot encode.
JsonNativeValues == {"dict", "list"}
Values == {"dict", "tuple", "object"}
None == "None"

Serializable(v) == v # "object"

\* json.load(json.dump(v)): what comes back for a serialisable v.
JsonRoundTrip(v) == IF v = "tuple" THEN "list" ELSE v

Ttls == {1, MaxTtl}

\* asdict(CacheEntry(...)) as serialised into the file.
CacheEntry(d, t, ttl, k) == [data |-> d, timestamp |-> t, ttl_hours |-> ttl, key |-> k]

\* The file is written in NChunks pieces; piece i of entry e.
Chunk(i, e) == [part |-> i, of |-> e]
Hole == [part |-> 0, of |-> CacheEntry(None, 0, 0, None)]

EntryChunks(e) == [i \in 1..NChunks |-> Chunk(i, e)]

\* json.load + CacheEntry(**entry_dict) succeed iff the file holds every
\* piece of one entry.
Parses(c) ==
    /\ Len(c) = NChunks
    /\ \A i \in 1..NChunks : c[i].part = i /\ c[i].of = c[1].of

EntryOf(c) == c[1].of

\* CacheEntry.is_expired
IsExpired(e, t) == t > e.timestamp + e.ttl_hours

Exists(k) == k \in DOMAIN files

\* cache_file.unlink()
Unlink(fs, k) == [x \in (DOMAIN fs) \ {k} |-> fs[x]]

\* the file of k holds content c
Put(fs, k, c) == [x \in (DOMAIN fs) \cup {k} |-> IF x = k THEN c ELSE fs[x]]

\* The result of a cache call.  data is None unless a get hit.
Ret(op, k, hit, d, ok, n, at) ==
    [op |-> op, key |-> k, hit |-> hit, data |-> d, ok |-> ok, n |-> n, at |-> at]

NoRet == Ret("none", None, FALSE, None, FALSE, 0, 0)

\* hist[k]: the last set call on k: its arguments, the time it ran, whether
\* it returned True, and whether an invalidate/clear call came after it.
\* prev is the data of the readable entry the call replaced (None: there was none).
NoHist == [called |-> FALSE, ok |-> FALSE, data |-> None, t |-> 0, ttl |-> 0,
           cleared |-> FALSE, prev |-> None]

IdleThread == [pc |-> "idle", key |-> None, entry |-> CacheEntry(None, 0, 0, None),
               pos |-> 0, orphan |-> FALSE, saw |-> "nothing", ok |-> TRUE]

Threads == 1..NThreads

CacheInit ==
    /\ files = <<>>
    /\ now = 0
    /\ hits = 0
    /\ misses = 0
    /\ sets = 0
    /\ ret = NoRet
    /\ hist = [k \in Keys |-> NoHist]
    /\ ncalls = 0
    /\ th = [t \in Threads |-> IdleThread]

(***************************************************************************)
(* CacheManager, one call at a time.                                       *)
(***************************************************************************)

\* What get(k) returns and leaves behind, computed as the code does.
GetOutcomeBug(k) ==
    IF Exists(k) /\ Parses(files[k]) /\ ~IsExpired(EntryOf(files[k]), now)
    THEN [hit |-> TRUE, data |-> EntryOf(files[k]).data, fs |-> files]
    ELSE [hit |-> FALSE, data |-> None, fs |-> files]
GetOutcome(k) ==
    IF ~Exists(k) THEN [hit |-> FALSE, data |-> None, fs |-> files]
    ELSE IF ~Parses(files[k]) THEN [hit |-> FALSE, data |-> None, fs |-> files]
    ELSE IF IsExpired(EntryOf(files[k]), now)
         THEN [hit |-> FALSE, data |-> None, fs |-> Unlink(files, k)]
    ELSE [hit |-> TRUE, data |-> EntryOf(files[k]).data, fs |-> files]

GetUncountedBug(k) ==
    /\ ncalls < MaxCalls
    /\ LET o == GetOutcome(k) IN
        /\ files' = o.fs
        /\ hits' = IF o.hit THEN hits + 1 ELSE hits
        /\ misses' = IF o.hit \/ o.fs # files THEN misses ELSE misses + 1
        /\ ret' = Ret("get", k, o.hit, o.data, TRUE, 0, now)
    /\ ncalls' = ncalls + 1
    /\ UNCHANGED <<now, sets, hist, th, nonCacheVars>>
Get(k) ==
    /\ ncalls < MaxCalls
    /\ LET o == GetOutcome(k) IN
        /\ files' = o.fs
        /\ hits' = IF o.hit THEN hits + 1 ELSE hits
        /\ misses' = IF o.hit THEN misses ELSE misses + 1
        /\ ret' = Ret("get", k, o.hit, o.data, TRUE, 0, now)
    /\ ncalls' = ncalls + 1
    /\ UNCHANGED <<now, sets, hist, th, nonCacheVars>>

\* The content set(k, v, ttl) leaves in the file: the whole entry, or, when
\* json.dump raises, the first p pieces of it (the file was truncated by
\* open(cache_file, 'w') before).
SetContentBug(k, v, ttl, p) ==
    IF Exists(k) /\ Parses(files[k]) THEN files[k]
    ELSE EntryChunks(CacheEntry(JsonRoundTrip(v), now, ttl, k))
SetContent(k, v, ttl, p) ==
    IF Serializable(v)
    THEN EntryChunks(CacheEntry(JsonRoundTrip(v), now, ttl, k))
    ELSE SubSeq(EntryChunks(CacheEntry(None, now, ttl, k)), 1, p)

\* How many pieces reach the file before json.dump gives up on v.
Prefixes(v) == IF Serializable(v) THEN {NChunks} ELSE 0..(NChunks - 1)

Set(k, v, ttl, p) ==
    /\ ncalls < MaxCalls
    /\ files' = Put(files, k, SetContent(k, v, ttl, p))
    /\ sets' = IF Serializable(v) THEN sets + 1 ELSE sets
    /\ ret' = Ret("set", k, FALSE, None, Serializable(v), 0, now)
    /\ hist' = [hist EXCEPT ![k] = [called |-> TRUE, ok |-> Serializable(v),
                                    data |-> v, t |-> now, ttl |-> ttl,
                                    cleared |-> FALSE,
                                    prev |-> IF Exists(k) /\ Parses(files[k])
                                             THEN EntryOf(files[k]).data
                                             ELSE None]]
    /\ ncalls' = ncalls + 1
    /\ UNCHANGED <<now, hits, misses, th, nonCacheVars>>

Invalidate(k) ==
    /\ ncalls < MaxCalls
    /\ files' = Unlink(files, k)
    /\ ret' = Ret("invalidate", k, FALSE, None, Exists(k), 0, now)
    /\ hist' = [hist EXCEPT ![k].cleared = TRUE]
    /\ ncalls' = ncalls + 1
    /\ UNCHANGED <<now, hits, misses, sets, th, nonCacheVars>>

DoomedBug(fs, t) == {k \in DOMAIN fs : Parses(fs[k]) /\ IsExpired(EntryOf(fs[k]), t)}
\* The files clear_expired removes: expired ones and unreadable ones.
Doomed(fs, t) == {k \in DOMAIN fs : ~Parses(fs[k]) \/ IsExpired(EntryOf(fs[k]), t)}

ClearExpired ==
    /\ ncalls < MaxCalls
    /\ files' = [x \in (DOMAIN files) \ Doomed(files, now) |-> files[x]]
    /\ ret' = Ret("clear_expired", None, FALSE, None, TRUE,
                  Cardinality(Doomed(files, now)), now)
    /\ hist' = [k \in Keys |-> [hist[k] EXCEPT !.cleared = TRUE]]
    /\ ncalls' = ncalls + 1
    /\ UNCHANGED <<now, hits, misses, sets, th, nonCacheVars>>

ClearAll ==
    /\ ncalls < MaxCalls
    /\ files' = <<>>
    /\ ret' = Ret("clear_all", None, FALSE, None, TRUE, Cardinality(DOMAIN files), now)
    /\ hist' = [k \in Keys |-> [hist[k] EXCEPT !.cleared = TRUE]]
    /\ ncalls' = ncalls + 1
    /\ UNCHANGED <<now, hits, misses, sets, th, nonCacheVars>>

\* Time passes between calls.
Tick ==
    /\ now < MaxTime
    /\ now' = now + 1
    /\ UNCHANGED <<files, hits, misses, sets, ret, hist, ncalls, th, nonCacheVars>>

CacheNext ==
    \/ \E k \in Keys : Get(k)
    \/ \E k \in Keys, v \in Values, ttl \in Ttls : \E p \in Prefixes(v) : Set(k, v, ttl, p)
    \/ \E k \in Keys : Invalidate(k)
    \/ ClearExpired
    \/ ClearAll
    \/ Tick

\* get_stats: reads the counters and counts the files
GetStats ==
    /\ ncalls < MaxCalls
    /\ ret' = Ret("get_stats", None, FALSE, None, TRUE, Cardinality(DOMAIN files), now)
    /\ ncalls' = ncalls + 1
    /\ UNCHANGED <<files, now, hits, misses, sets, hist, th, nonCacheVars>>

\* get_entry_info: None when the file is absent or unreadable, otherwise the
\* metadata of the entry (n is its age_hours); the file is only read
GetEntryInfo(k) ==
    /\ ncalls < MaxCalls
    /\ LET found == Exists(k) /\ Parses(files[k]) IN
          ret' = Ret("get_entry_info", k, FALSE, None, found,
                     IF found THEN now - EntryOf(files[k]).timestamp ELSE 0, now)
    /\ ncalls' = ncalls + 1
    /\ UNCHANGED <<files, now, hits, misses, sets, hist, th, nonCacheVars>>

\* the cache with the calls that only report on it
CacheStatsNext ==
    \/ CacheNext
    \/ GetStats
    \/ \E k \in Keys : GetEntryInfo(k)

(***************************************************************************)
(* CacheManager.get and CacheManager.set called from several threads: each *)
(* file-system call of the two handlers is one step.                       *)
(***************************************************************************)

\* f.write at offset pos of a file whose content is c.
WriteAt(c, pos, ch) ==
    [i \in 1..(IF Len(c) > pos THEN Len(c) ELSE pos) |->
        IF i = pos THEN ch ELSE IF i <= Len(c) THEN c[i] ELSE Hole]

\* unlink of k's file: the handles other threads hold on it now refer to a
\* file that is no longer in the directory.
Orphaned(t, k) ==
    [u \in Threads |->
        IF u # t /\ th[u].key = k /\ th[u].pc = "dump"
        THEN [th[u] EXCEPT !.orphan = TRUE] ELSE th[u]]

Back(t, saw) == [IdleThread EXCEPT !.saw = saw]

\* set, lines 142-147: the entry is built, with datetime.now() as timestamp.
StartSet(t, k, v, ttl) ==
    /\ th[t].pc = "idle"
    /\ ncalls < MaxCalls
    /\ th' = [th EXCEPT ![t] = [pc |-> "open", key |-> k,
                                entry |-> CacheEntry(JsonRoundTrip(v), now, ttl, k),
                                pos |-> 0, orphan |-> FALSE, saw |-> "nothing",
                                ok |-> Serializable(v)]]
    /\ ncalls' = ncalls + 1
    /\ UNCHANGED <<files, now, hits, misses, sets, ret, hist, nonCacheVars>>

\* set, line 150: open(cache_file, 'w') creates the file or truncates it.
SetOpen(t) ==
    /\ th[t].pc = "open"
    /\ files' = Put(files, th[t].key, <<>>)
    /\ th' = [th EXCEPT ![t].pc = "dump", ![t].pos = 1]
    /\ UNCHANGED <<now, hits, misses, sets, ret, hist, ncalls, nonCacheVars>>

\* set, line 151: json.dump writes the next piece through the open handle.
SetWrite(t) ==
    /\ th[t].pc = "dump"
    /\ th[t].pos <= (IF th[t].ok THEN NChunks ELSE NChunks - 1)
    /\ files' = IF ~th[t].orphan /\ Exists(th[t].key)
                THEN Put(files, th[t].key,
                         WriteAt(files[th[t].key], th[t].pos, Chunk(th[t].pos, th[t].entry)))
                ELSE files
    /\ th' = [th EXCEPT ![t].pos = th[t].pos + 1]
    /\ UNCHANGED <<now, hits, misses, sets, ret, hist, ncalls, nonCacheVars>>

\* set, lines 153-154: the file is closed, sets += 1, return True.
SetClose(t) ==
    /\ th[t].pc = "dump"
    /\ th[t].ok
    /\ th[t].pos = NChunks + 1
    /\ sets' = sets + 1
    /\ th' = [th EXCEPT ![t] = Back(t, "set_true")]
    /\ UNCHANGED <<files, now, hits, misses, ret, hist, ncalls, nonCacheVars>>

\* set, lines 156-158: json.dump raised; return False.
SetRaise(t) ==
    /\ th[t].pc = "dump"
    /\ ~th[t].ok
    /\ th' = [th EXCEPT ![t] = Back(t, "set_false")]
    /\ UNCHANGED <<files, now, hits, misses, sets, ret, hist, ncalls, nonCacheVars>>

StartGet(t, k) ==
    /\ th[t].pc = "idle"
    /\ ncalls < MaxCalls
    /\ th' = [th EXCEPT ![t] = [IdleThread EXCEPT !.pc = "exists", !.key = k]]
    /\ ncalls' = ncalls + 1
    /\ UNCHANGED <<files, now, hits, misses, sets, ret, hist, nonCacheVars>>

\* get, lines 106-108
GetExists(t) ==
    /\ th[t].pc = "exists"
    /\ IF Exists(th[t].key)
       THEN /\ th' = [th EXCEPT ![t].pc = "read"]
            /\ UNCHANGED misses
       ELSE /\ th' = [th EXCEPT ![t] = Back(t, "miss")]
            /\ misses' = misses + 1
    /\ UNCHANGED <<files, now, hits, sets, ret, hist, ncalls, nonCacheVars>>

\* get, lines 111-122 and 124-127: the file is read and parsed.
GetRead(t) ==
    /\ th[t].pc = "read"
    /\ LET k == th[t].key IN
        IF ~Exists(k)
        THEN /\ th' = [th EXCEPT ![t] = Back(t, "miss")]
             /\ misses' = misses + 1
             /\ UNCHANGED hits
        ELSE IF ~Parses(files[k])
        THEN /\ th' = [th EXCEPT ![t] = Back(t, "partial")]
             /\ misses' = misses + 1
             /\ UNCHANGED hits
        ELSE IF IsExpired(EntryOf(files[k]), now)
        THEN /\ th' = [th EXCEPT ![t].pc = "unlink"]
             /\ UNCHANGED <<hits, misses>>
        ELSE /\ th' = [th EXCEPT ![t] = Back(t, "hit")]
             /\ hits' = hits + 1
             /\ UNCHANGED misses
    /\ UNCHANGED <<files, now, sets, ret, hist, ncalls, nonCacheVars>>

\* get, lines 117-119 (and 124-127 when unlink raises)
GetUnlink(t) ==
    /\ th[t].pc = "unlink"
    /\ files' = Unlink(files, th[t].key)
    /\ th' = [Orphaned(t, th[t].key) EXCEPT ![t] = Back(t, "miss")]
    /\ misses' = misses + 1
    /\ UNCHANGED <<now, hits, sets, ret, hist, ncalls, nonCacheVars>>

\* clear_expired run by thread t while others are inside get or set.
Sweep(t) ==
    /\ th[t].pc = "idle"
    /\ ncalls < MaxCalls
    /\ files' = [x \in (DOMAIN files) \ Doomed(files, now) |-> files[x]]
    /\ th' = [u \in Threads |->
                IF u = t
                THEN Back(t, IF \E k \in DOMAIN files : ~Parses(files[k])
                             THEN "partial" ELSE "swept")
                ELSE IF th[u].pc = "dump" /\ th[u].key \in Doomed(files, now)
                THEN [th[u] EXCEPT !.orphan = TRUE]
                ELSE th[u]]
    /\ ncalls' = ncalls + 1
    /\ UNCHANGED <<now, hits, misses, sets, ret, hist, nonCacheVars>>

ConcTick ==
    /\ now < MaxTime
    /\ now' = now + 1
    /\ UNCHANGED <<files, hits, misses, sets, ret, hist, ncalls, th, nonCacheVars>>

\* The key the threads contend on.
ConcKey == "fundamentals:AAPL"

ConcNext ==
    \/ \E t \in Threads, v \in Values, ttl \in Ttls : StartSet(t, ConcKey, v, ttl)
    \/ \E t \in Threads : SetOpen(t)
    \/ \E t \in Threads : SetWrite(t)
    \/ \E t \in Threads : SetClose(t)
    \/ \E t \in Threads : SetRaise(t)
    \/ \E t \in Threads : StartGet(t, ConcKey)
    \/ \E t \in Threads : GetExists(t)
    \/ \E t \in Threads : GetRead(t)
    \/ \E t \in Threads : GetUnlink(t)
    \/ \E t \in Threads : Sweep(t)
    \/ ConcTick


(***************************************************************************)
(* indicators/analyst_scoring.py                                           *)
(***************************************************************************)

\* AnalystScoring.__init__: the weights are normalised to sum to 1.
AnalystScoring(wu, ws, wm, wc, minm, maxm, minc) ==
    LET total == RAdd(RAdd(wu, ws), RAdd(wm, wc)) IN
    [weight_upside |-> RDiv(wu, total),
     weight_sentiment |-> RDiv(ws, total),
     weight_momentum |-> RDiv(wm, total),
     weight_coverage |-> RDiv(wc, total),
     min_multiplier |-> minm,
     max_multiplier |-> maxm,
     min_analyst_count |-> minc]

\* config.AnalystScoringConfig, the defaults
DefaultAnalystScoring ==
    AnalystScoring(Rat(35, 100), Rat(30, 100), Rat(20, 100), Rat(15, 100),
                   Rat(8, 10), Rat(12, 10), R(3))

\* _score_upside
ScoreUpside(upside_pct) ==
    IF IsNone(upside_pct) THEN R(50)
    ELSE IF RLe(R(50), upside_pct) THEN R(100)
    ELSE IF RLe(R(0), upside_pct)
         THEN RAdd(R(50), RMul(RDiv(upside_pct, R(50)), R(50)))
    ELSE RMax(R(0), RAdd(R(50), RMul(RDiv(upside_pct, R(20)), R(50))))

\* _score_sentiment
ScoreSentiment(recommendation_mean) ==
    IF IsNone(recommendation_mean) THEN R(50)
    ELSE LET rec == RMax(R(1), RMin(R(5), recommendation_mean)) IN
         RSub(R(100), RMul(RDiv(RSub(rec, R(1)), R(4)), R(100)))

\* _score_momentum
ScoreMomentum(upgrades, downgrades) ==
    LET net == upgrades - downgrades IN
    IF net >= 3 THEN R(100)
    ELSE IF net <= -3 THEN R(0)
    ELSE RAdd(R(50), RMul(RDiv(R(net), R(3)), R(50)))

\* "not analyst_count or analyst_count < self.min_analyst_count"
ThinCoverageBug(cfg, analyst_count) == IsNone(analyst_count)
ThinCoverage(cfg, analyst_count) ==
    \/ IsNone(analyst_count)
    \/ analyst_count = R(0)
    \/ RLt(analyst_count, cfg.min_analyst_count)

\* _score_coverage
ScoreCoverage(cfg, analyst_count) ==
    IF ThinCoverage(cfg, analyst_count) THEN R(0)
    ELSE IF RLe(R(20), analyst_count) THEN R(100)
    ELSE IF RLe(R(10), analyst_count)
         THEN RAdd(R(75), RMul(RDiv(RSub(analyst_count, R(10)), R(10)), R(25)))
    ELSE IF RLe(R(5), analyst_count)
         THEN RAdd(R(50), RMul(RDiv(RSub(analyst_count, R(5)), R(5)), R(25)))
    ELSE RAdd(R(25), RMul(RDiv(RSub(analyst_count, R(3)), R(2)), R(25)))

\* _score_to_multiplier
ScoreToMultiplierBug(cfg, score) ==
    LET normalized == RDiv(RSub(score, R(50)), R(50)) IN
    RAdd(R(1), RMul(normalized, RSub(cfg.max_multiplier, cfg.min_multiplier)))
ScoreToMultiplier(cfg, score) ==
    LET normalized == RDiv(RSub(score, R(50)), R(50))
        multiplier ==
            IF RLe(R(0), normalized)
            THEN RAdd(R(1), RMul(normalized, RSub(cfg.max_multiplier, R(1))))
            ELSE RAdd(R(1), RMul(normalized, RSub(R(1), cfg.min_multiplier)))
    IN  RMax(cfg.min_multiplier, RMin(cfg.max_multiplier, multiplier))

\* The AnalystScore dataclass.
AnalystScore(us, ss, ms, cs, comp, mult, count, net) ==
    [upside_score |-> us, sentiment_score |-> ss, momentum_score |-> ms,
     coverage_score |-> cs, composite_score |-> comp, multiplier |-> mult,
     analyst_count |-> count, net_upgrades |-> net, present |-> TRUE]

\* Python's None where an AnalystScore is expected.
NoAnalystScore ==
    [upside_score |-> NoneR, sentiment_score |-> NoneR, momentum_score |-> NoneR,
     coverage_score |-> NoneR, composite_score |-> NoneR, multiplier |-> NoneR,
     analyst_count |-> NoneR, net_upgrades |-> 0, present |-> FALSE]

\* The arguments of calculate_score (analyst_target_mean is not read).
AnalystArgs(upside, rec, count, up, down) ==
    [analyst_target_upside_pct |-> upside, analyst_recommendation_mean |-> rec,
     analyst_count |-> count, recent_upgrades_30d |-> up,
     recent_downgrades_30d |-> down]

\* calculate_score
CalculateScore(cfg, a) ==
    IF ThinCoverage(cfg, a.analyst_count)
    THEN AnalystScore(R(50), R(50), R(50), R(0), R(50), R(1), a.analyst_count,
                      a.recent_upgrades_30d - a.recent_downgrades_30d)
    ELSE LET us == ScoreUpside(a.analyst_target_upside_pct)
             ss == ScoreSentiment(a.analyst_recommendation_mean)
             ms == ScoreMomentum(a.recent_upgrades_30d, a.recent_downgrades_30d)
             cs == ScoreCoverage(cfg, a.analyst_count)
             comp == RAdd(RAdd(RMul(us, cfg.weight_upside),
                               RMul(ss, cfg.weight_sentiment)),
                          RAdd(RMul(ms, cfg.weight_momentum),
                               RMul(cs, cfg.weight_coverage)))
         IN  AnalystScore(us, ss, ms, cs, comp, ScoreToMultiplier(cfg, comp),
                          a.analyst_count,
                          a.recent_upgrades_30d - a.recent_downgrades_30d)

\* Instances and arguments calculate_score is checked on.
MultiplierRanges ==
    {<<Rat(8, 10), Rat(12, 10)>>, <<Rat(1, 2), R(2)>>, <<R(1), R(1)>>,
     <<Rat(11, 10), Rat(12, 10)>>, <<Rat(1, 2), Rat(9, 10)>>}

WeightSets ==
    {<<Rat(35, 100), Rat(30, 100), Rat(20, 100), Rat(15, 100)>>,
     <<R(1), R(1), R(1), R(1)>>,
     <<R(2), R(0), R(0), R(0)>>}

AnalystConfigs ==
    {AnalystScoring(w[1], w[2], w[3], w[4], m[1], m[2], c) :
        w \in WeightSets, m \in MultiplierRanges, c \in {R(1), R(3)}}

UpsideInputs == {NoneR, R(-30), R(-10), R(0), R(25), R(60)}
RecommendationInputs == {NoneR, Rat(1, 2), R(1), Rat(9, 5), R(3), R(6)}
CountInputs == {NoneR, R(0), R(2), R(3), R(4), R(7), R(15), R(25)}
UpgradeInputs == {0, 1, 4}

AnalystInputs ==
    {AnalystArgs(u, r, c, up, down) :
        u \in UpsideInputs, r \in RecommendationInputs, c \in CountInputs,
        up \in UpgradeInputs, down \in UpgradeInputs}

AnalystIdle ==
    /\ aCfg = DefaultAnalystScoring
    /\ aIn = AnalystArgs(NoneR, NoneR, NoneR, 0, 0)
    /\ aOut = NoAnalystScore

AnalystInit ==
    /\ aCfg \in AnalystConfigs
    /\ aIn \in AnalystInputs
    /\ aOut = NoAnalystScore

Calculate ==
    /\ ~aOut.present
    /\ aOut' = CalculateScore(aCfg, aIn)
    /\ UNCHANGED <<aCfg, aIn, nonAnalystVars>>

(***************************************************************************)
(* data/fundamentals_provider.py: FundamentalData                          *)
(***************************************************************************)

\* _classify_market_cap; market capitalisations are in millions of dollars.
ClassifyMarketCap(market_cap) ==
    IF RLe(R(200000), market_cap) THEN "mega"
    ELSE IF RLe(R(10000), market_cap) THEN "large"
    ELSE IF RLe(R(2000), market_cap) THEN "mid"
    ELSE IF RLe(R(300), market_cap) THEN "small"
    ELSE "micro"

\* __post_init__: the category is derived when a market cap is known.
PostInit(f) ==
    IF f.market_cap_category = None /\ ~IsNone(f.market_cap) /\ f.market_cap # R(0)
    THEN [f EXCEPT !.market_cap_category = ClassifyMarketCap(f.market_cap)]
    ELSE f

\* get_fundamentals returned None (empty price history or an exception).
NoFundamentals == [present |-> FALSE]

\* Price, volume and growth metrics of four kinds of stock.
Leader ==
    [present |-> TRUE,
     current_price |-> R(150), avg_volume_50d |-> R(2000000),
     market_cap |-> R(500000), market_cap_category |-> None,
     sector |-> "Technology", industry |-> "Semiconductors",
     earnings_growth_qtrly |-> Rat(40, 100), earnings_growth_annual |-> Rat(30, 100),
     price_pct_from_52w_high |-> R(-5), price_pct_from_52w_low |-> R(60),
     volume_surge_ratio |-> Rat(16, 10), rs_rating |-> R(85),
     institutional_ownership |-> Rat(60, 100),
     price_vs_ma_50 |-> R(4), price_vs_ma_150 |-> R(9), price_vs_ma_200 |-> R(12),
     ma_50_above_ma_150 |-> TRUE, ma_50_above_ma_200 |-> TRUE,
     ma_150_above_ma_200 |-> TRUE,
     atr_14 |-> R(3), price_momentum_3m |-> R(15), beta |-> R(1)]

Volatile ==
    [present |-> TRUE,
     current_price |-> R(40), avg_volume_50d |-> R(5000000),
     market_cap |-> R(1500), market_cap_category |-> None,
     sector |-> "Energy", industry |-> "Oil & Gas",
     earnings_growth_qtrly |-> NoneR, earnings_growth_annual |-> Rat(10, 100),
     price_pct_from_52w_high |-> R(-30), price_pct_from_52w_low |-> R(80),
     volume_surge_ratio |-> Rat(14, 10), rs_rating |-> R(75),
     institutional_ownership |-> Rat(5, 100),
     price_vs_ma_50 |-> R(5), price_vs_ma_150 |-> R(-2), price_vs_ma_200 |-> R(3),
     ma_50_above_ma_150 |-> FALSE, ma_50_above_ma_200 |-> TRUE,
     ma_150_above_ma_200 |-> TRUE,
     atr_14 |-> R(4), price_momentum_3m |-> R(25), beta |-> Rat(18, 10)]

Mixed ==
    [present |-> TRUE,
     current_price |-> R(80), avg_volume_50d |-> R(800000),
     market_cap |-> R(50000), market_cap_category |-> None,
     sector |-> "Technology", industry |-> "Software",
     earnings_growth_qtrly |-> Rat(30, 100), earnings_growth_annual |-> Rat(26, 100),
     price_pct_from_52w_high |-> R(-20), price_pct_from_52w_low |-> R(35),
     volume_surge_ratio |-> R(1), rs_rating |-> R(72),
     institutional_ownership |-> Rat(30, 100),
     price_vs_ma_50 |-> R(2), price_vs_ma_150 |-> R(6), price_vs_ma_200 |-> R(1),
     ma_50_above_ma_150 |-> TRUE, ma_50_above_ma_200 |-> TRUE,
     ma_150_above_ma_200 |-> FALSE,
     atr_14 |-> R(2), price_momentum_3m |-> R(5), beta |-> NoneR]

\* a cheap stock with a short price history: fewer than 150 bars, so that
\* ma_150, ma_200 and the values derived from them are None
Penny ==
    [present |-> TRUE,
     current_price |-> R(3), avg_volume_50d |-> R(900000),
     market_cap |-> NoneR, market_cap_category |-> None,
     sector |-> None, industry |-> None,
     earnings_growth_qtrly |-> Rat(50, 100), earnings_growth_annual |-> NoneR,
     price_pct_from_52w_high |-> R(-10), price_pct_from_52w_low |-> R(20),
     volume_surge_ratio |-> R(2), rs_rating |-> NoneR,
     institutional_ownership |-> NoneR,
     price_vs_ma_50 |-> R(-1), price_vs_ma_150 |-> NoneR, price_vs_ma_200 |-> NoneR,
     ma_50_above_ma_150 |-> FALSE, ma_50_above_ma_200 |-> FALSE,
     ma_150_above_ma_200 |-> FALSE,
     atr_14 |-> Rat(1, 2), price_momentum_3m |-> R(12), beta |-> Rat(15, 10)]

\* What _fetch_analyst_data found.
Bullish == AnalystArgs(R(30), Rat(3, 2), R(20), 3, 0)

Bearish == AnalystArgs(R(-10), R(4), R(6), 0, 2)

Thin == AnalystArgs(NoneR, NoneR, R(2), 0, 0)

Uncovered == AnalystArgs(NoneR, NoneR, NoneR, 0, 0)

\* FundamentalData(...): the metrics and the analyst data in one object.
FundamentalData(metrics, analyst) == PostInit(metrics @@ analyst)

\* What the data source has for a ticker: the result of get_fundamentals and
\* whether the price history the stop recommender asks for can be fetched.
MarketData(fund, ohlcv) == [fund |-> fund, ohlcv |-> ohlcv]

Fixtures ==
    {MarketData(NoFundamentals, "error"),
     MarketData(FundamentalData(Leader, Bullish), "ok"),
     MarketData(FundamentalData(Leader, Thin), "ok"),
     MarketData(FundamentalData(Volatile, Bearish), "error"),
     MarketData(FundamentalData(Mixed, Bullish), "ok"),
     MarketData(FundamentalData(Penny, Uncovered), "ok")}


(***************************************************************************)
(* screeners/: the strategies                                              *)
(***************************************************************************)

\* The ScreenerResult dataclass (notes and timestamps left out).
ScreenerResult(ticker, score, passed, passed_criteria, failed_criteria) ==
    [ticker |-> ticker, score |-> score, passed |-> passed,
     passed_criteria |-> passed_criteria, failed_criteria |-> failed_criteria]

RECURSIVE SumWeights(_, _)
\* sum(weights.get(c, 1.0) for c in criteria)
SumWeights(criteria, weights) ==
    IF criteria = <<>> THEN R(0)
    ELSE RAdd(IF Head(criteria) \in DOMAIN weights
              THEN weights[Head(criteria)] ELSE R(1),
              SumWeights(Tail(criteria), weights))

\* ScreenerStrategy.calculate_score, with weights given
ScreenerCalculateScore(passed_criteria, total_criteria, weights) ==
    IF total_criteria = <<>> THEN R(0)
    ELSE LET total_weight == SumWeights(total_criteria, weights)
             passed_weight == SumWeights(passed_criteria, weights)
         IN  IF RLt(R(0), total_weight)
             THEN RMul(RDiv(passed_weight, total_weight), R(100))
             ELSE R(0)

\* "x is not None and x >= threshold"
AtLeast(x, threshold) == ~IsNone(x) /\ RLe(threshold, x)

\* "if atr and current_price: atr_pct = (atr / current_price) * 100"
HasAtrPct(f) ==
    /\ ~IsNone(f.atr_14) /\ f.atr_14 # R(0)
    /\ ~IsNone(f.current_price) /\ f.current_price # R(0)

AtrPct(f) == RMul(RDiv(f.atr_14, f.current_price), R(100))

CanslimCriteria ==
    <<"current_earnings", "annual_earnings", "near_high", "volume_surge",
      "relative_strength", "institutional">>

CanslimWeights ==
    [current_earnings |-> Rat(20, 100), annual_earnings |-> Rat(20, 100),
     near_high |-> Rat(15, 100), volume_surge |-> Rat(15, 100),
     relative_strength |-> Rat(20, 100), institutional |-> Rat(10, 100)]

CanslimMeets(f, c) ==
    CASE c = "current_earnings" -> AtLeast(f.earnings_growth_qtrly, Rat(25, 100))
      [] c = "annual_earnings" -> AtLeast(f.earnings_growth_annual, Rat(25, 100))
      [] c = "near_high" -> RLe(R(-15), f.price_pct_from_52w_high)
      [] c = "volume_surge" -> RLe(Rat(15, 10), f.volume_surge_ratio)
      [] c = "relative_strength" -> AtLeast(f.rs_rating, R(70))
      [] c = "institutional" -> AtLeast(f.institutional_ownership, Rat(10, 100))

MinerviniCriteria ==
    <<"above_mas", "ma_alignment", "above_52w_low", "near_52w_high",
      "relative_strength", "tight_consolidation">>

MinerviniWeights ==
    [above_mas |-> Rat(25, 100), ma_alignment |-> Rat(20, 100),
     above_52w_low |-> Rat(15, 100), near_52w_high |-> Rat(10, 100),
     relative_strength |-> Rat(20, 100), tight_consolidation |-> Rat(10, 100)]

MinerviniMeets(f, c) ==
    CASE c = "above_mas" ->
            /\ RLt(R(0), f.price_vs_ma_50)
            /\ RLt(R(0), f.price_vs_ma_150)
            /\ RLt(R(0), f.price_vs_ma_200)
      [] c = "ma_alignment" ->
            f.ma_50_above_ma_150 /\ f.ma_50_above_ma_200 /\ f.ma_150_above_ma_200
      [] c = "above_52w_low" -> RLe(R(30), f.price_pct_from_52w_low)
      [] c = "near_52w_high" -> RLe(R(-25), f.price_pct_from_52w_high)
      [] c = "relative_strength" -> AtLeast(f.rs_rating, R(70))
      [] c = "tight_consolidation" -> HasAtrPct(f) /\ RLe(AtrPct(f), R(20))

VolatilityCriteria ==
    <<"high_atr", "volume_surge", "momentum", "above_ma", "high_beta">>

VolatilityWeights ==
    [high_atr |-> Rat(30, 100), volume_surge |-> Rat(20, 100),
     momentum |-> Rat(25, 100), above_ma |-> Rat(15, 100),
     high_beta |-> Rat(10, 100)]

VolatilityMeets(f, c) ==
    CASE c = "high_atr" -> HasAtrPct(f) /\ RLe(R(5), AtrPct(f))
      [] c = "volume_surge" -> RLe(Rat(13, 10), f.volume_surge_ratio)
      [] c = "momentum" -> RLe(R(10), f.price_momentum_3m)
      [] c = "above_ma" -> RLt(R(0), f.price_vs_ma_50)
      [] c = "high_beta" -> AtLeast(f.beta, Rat(12, 10))

\* registry.list_screeners(): the strategies registered at import
AvailableStrategies == {"canslim", "minervini", "high_volatility"}

Criteria(name) ==
    CASE name = "canslim" -> CanslimCriteria
      [] name = "minervini" -> MinerviniCriteria
      [] name = "high_volatility" -> VolatilityCriteria

Weights(name) ==
    CASE name = "canslim" -> CanslimWeights
      [] name = "minervini" -> MinerviniWeights
      [] name = "high_volatility" -> VolatilityWeights

Meets(name, f, c) ==
    CASE name = "canslim" -> CanslimMeets(f, c)
      [] name = "minervini" -> MinerviniMeets(f, c)
      [] name = "high_volatility" -> VolatilityMeets(f, c)

\* "Pass if score >= 70" (canslim), 75 (minervini), 65 (high_volatility)
PassScore(name) ==
    CASE name = "canslim" -> R(70)
      [] name = "minervini" -> R(75)
      [] name = "high_volatility" -> R(65)

\* filter raises TypeError where it compares None with a number: the
\* price_vs_ma_* values are compared without a None test.
FilterRaises(name, f) ==
    CASE name = "canslim" -> FALSE
      [] name = "minervini" ->
            \/ IsNone(f.price_vs_ma_50)
            \/ IsNone(f.price_vs_ma_150)
            \/ IsNone(f.price_vs_ma_200)
      [] name = "high_volatility" -> IsNone(f.price_vs_ma_50)

\* ScreenerStrategy.filter of the strategy registered under name
Filter(name, ticker, f) ==
    LET passed_criteria == SelectSeq(Criteria(name), LAMBDA c : Meets(name, f, c))
        failed_criteria == SelectSeq(Criteria(name), LAMBDA c : ~Meets(name, f, c))
        score == ScreenerCalculateScore(passed_criteria, Criteria(name), Weights(name))
    IN  ScreenerResult(ticker, score, RLe(PassScore(name), score),
                       passed_criteria, failed_criteria)


(***************************************************************************)
(* data/universe_provider.py: UniverseFilter                               *)
(***************************************************************************)

\* UniverseFilter.__init__; a list argument that is None or empty is the
\* empty set (both are falsy, and "exclude or []" maps None to []).
UniverseFilter(min_price, min_volume, min_market_cap, max_market_cap, cap_categories, sectors, exclude_sectors, industries, exclude_industries) ==
    [min_price |-> min_price, min_volume |-> min_volume,
     min_market_cap |-> min_market_cap, max_market_cap |-> max_market_cap,
     cap_categories |-> cap_categories, sectors |-> sectors,
     exclude_sectors |-> exclude_sectors, industries |-> industries,
     exclude_industries |-> exclude_industries]

\* "if x:" for an Optional[float]
Truthy(x) == ~IsNone(x) /\ x # R(0)

\* the body of the loop of filter_tickers: TRUE when the ticker is appended
Keeps(uf, data) ==
    /\ ~RLt(data.current_price, uf.min_price)
    /\ ~RLt(data.avg_volume_50d, uf.min_volume)
    /\ Truthy(data.market_cap) =>
          /\ ~(Truthy(uf.min_market_cap) /\ RLt(data.market_cap, uf.min_market_cap))
          /\ ~(Truthy(uf.max_market_cap) /\ RLt(uf.max_market_cap, data.market_cap))
    /\ (uf.cap_categories # {} /\ data.market_cap_category # None)
          => data.market_cap_category \in uf.cap_categories
    /\ IF uf.sectors # {} THEN data.sector \in uf.sectors
       ELSE data.sector \notin uf.exclude_sectors
    /\ IF uf.industries # {} THEN data.industry \in uf.industries
       ELSE data.industry \notin uf.exclude_industries

\* filter_tickers
FilterTickers(uf, ts, fundamental_data) ==
    SelectSeq(ts, LAMBDA t :
        t \in DOMAIN fundamental_data /\ Keeps(uf, fundamental_data[t]))

\* config.ScreenerConfig: min_price = 5.0, min_volume = 500_000
ConfigMinPrice == R(5)

ConfigMinVolume == R(500000)


(***************************************************************************)
(* screeners/screener_manager.py: ScreenerManager.run_screen               *)
(***************************************************************************)

\* AnalystScoring.calculate_from_fundamentals
CalculateFromFundamentals(cfg, fund_data) ==
    CalculateScore(cfg,
        AnalystArgs(fund_data.analyst_target_upside_pct,
                    fund_data.analyst_recommendation_mean,
                    fund_data.analyst_count,
                    fund_data.recent_upgrades_30d,
                    fund_data.recent_downgrades_30d))

\* The ScreenOutput dataclass.
ScreenOutput(ticker, screener_result, screener_scores, analyst_score, base_score) ==
    [ticker |-> ticker, screener_result |-> screener_result,
     stop_recommendation |-> None, screener_scores |-> screener_scores,
     analyst_score |-> analyst_score, base_score |-> base_score]

\* The ScreenSummary dataclass (times left out).
ScreenSummary(strategy_names, total_universe, passed_screener, analyzed_positions, results, combine_mode) ==
    [returned |-> TRUE, strategy_names |-> strategy_names,
     total_universe |-> total_universe, passed_screener |-> passed_screener,
     analyzed_positions |-> analyzed_positions, results |-> results,
     combine_mode |-> combine_mode]

\* run_screen has not returned
NoSummary ==
    [returned |-> FALSE, strategy_names |-> <<>>, total_universe |-> 0,
     passed_screener |-> 0, analyzed_positions |-> 0, results |-> <<>>,
     combine_mode |-> "union"]

RECURSIVE DictKeys(_, _)
\* the keys of {name: get_screener(name) for name in strategy_names}: a name
\* given twice is one key, at the place of its first occurrence
DictKeys(names, seen) ==
    IF names = <<>> THEN <<>>
    ELSE IF Head(names) \in seen THEN DictKeys(Tail(names), seen)
    ELSE <<Head(names)>> \o DictKeys(Tail(names), seen \cup {Head(names)})

RECURSIVE SumScores(_)
\* sum(r.score for r in screener_results.values())
SumScores(rs) ==
    IF rs = <<>> THEN R(0) ELSE RAdd(Head(rs).score, SumScores(Tail(rs)))

RECURSIVE MaxScore(_)
\* max(r.score for r in screener_results.values())
MaxScore(rs) ==
    IF Len(rs) = 1 THEN rs[1].score
    ELSE RMax(Head(rs).score, MaxScore(Tail(rs)))

\* combine_mode == "intersection": all pass, average score, and the first
\* screener's result object is the one that is changed and returned
CombineIntersectionBug(rs) ==
    [passed |-> \E i \in 1..Len(rs) : rs[i].passed,
     score |-> SumScores(rs),
     template |-> 1]
CombineIntersection(rs) ==
    [passed |-> \A i \in 1..Len(rs) : rs[i].passed,
     score |-> RDiv(SumScores(rs), R(Len(rs))),
     template |-> 1]

\* the else branch (union): any pass, max score, and the result object that
\* max(values, key=score) returns, the first one with the greatest score, is
\* the one that is changed and returned
CombineUnionLastBug(rs) ==
    LET max_score == MaxScore(rs) IN
    [passed |-> \E i \in 1..Len(rs) : rs[i].passed,
     score |-> max_score,
     template |-> CHOOSE i \in 1..Len(rs) :
                    /\ rs[i].score = max_score
                    /\ \A j \in (i + 1)..Len(rs) : rs[j].score # max_score]
CombineUnionBug(rs) ==
    [passed |-> \A i \in 1..Len(rs) : rs[i].passed,
     score |-> rs[1].score,
     template |-> 1]
CombineUnion(rs) ==
    LET max_score == MaxScore(rs) IN
    [passed |-> \E i \in 1..Len(rs) : rs[i].passed,
     score |-> max_score,
     template |-> CHOOSE i \in 1..Len(rs) :
                    /\ rs[i].score = max_score
                    /\ \A j \in 1..(i - 1) : rs[j].score # max_score]

\* "combined_result.score = combined_result.score * analyst_score.multiplier"
\* when analyst scoring is enabled
AnalystAdjustedBug(score, analyst_score) == score
AnalystAdjusted(score, analyst_score) ==
    IF analyst_score.present THEN RMul(score, analyst_score.multiplier)
    ELSE score

RECURSIVE RunAll(_, _, _)
\* "for strat_name, screener in screeners.items():" the results of all the
\* screeners for one ticker, in the order of the keys
RunAll(names, ticker, fund_dict) ==
    IF names = <<>> THEN <<>>
    ELSE <<Filter(Head(names), ticker, fund_dict)>>
            \o RunAll(Tail(names), ticker, fund_dict)

\* One iteration of the loop over the tickers, for a ticker with
\* fundamentals: kept is FALSE where the iteration ends in "continue".
ScoreTicker(ticker, fund_data, a) ==
    LET names == DictKeys(a.strategy_names, {})
        screener_results == RunAll(names, ticker, fund_data)
        combined ==
            IF a.combine_mode = "intersection"
            THEN CombineIntersection(screener_results)
            ELSE CombineUnion(screener_results)
        base_score == combined.score
        analyst_score ==
            IF a.analyst_scoring_enabled
            THEN CalculateFromFundamentals(DefaultAnalystScoring, fund_data)
            ELSE NoAnalystScore
        final == AnalystAdjusted(base_score, analyst_score)
        \* combined_result is one of the objects in screener_results, so the
        \* scores read afterwards see what was assigned to it
        combined_result ==
            [screener_results[combined.template] EXCEPT
                !.passed = combined.passed, !.score = final]
        scores ==
            [n \in {names[i] : i \in 1..Len(names)} |->
                LET i == CHOOSE j \in 1..Len(names) : names[j] = n IN
                IF i = combined.template THEN final
                ELSE screener_results[i].score]
    IN  [kept |-> ~(Truthy(a.min_score) /\ RLt(final, a.min_score)),
         output |-> ScreenOutput(ticker, combined_result, scores,
                                 analyst_score, base_score)]

\* a screener's filter raises for one of the tickers that are scored
ScoringRaises(ts, fund, a) ==
    \E i \in 1..Len(ts) :
        /\ ts[i] \in DOMAIN fund
        /\ \E n \in {a.strategy_names[j] : j \in 1..Len(a.strategy_names)} :
              FilterRaises(n, fund[ts[i]])

RECURSIVE ScoreAll(_, _, _)
\* the loop "for ticker in tickers": results_by_ticker in insertion order
ScoreAll(ts, fund, a) ==
    IF ts = <<>> THEN <<>>
    ELSE IF Head(ts) \notin DOMAIN fund THEN ScoreAll(Tail(ts), fund, a)
    ELSE LET r == ScoreTicker(Head(ts), fund[Head(ts)], a) IN
         (IF r.kept THEN <<r.output>> ELSE <<>>) \o ScoreAll(Tail(ts), fund, a)

RECURSIVE InsertDesc(_, _)
\* x goes behind every element whose score is not smaller
InsertDesc(sorted, x) ==
    IF sorted = <<>> THEN <<x>>
    ELSE IF RLt(Head(sorted).screener_result.score, x.screener_result.score)
         THEN <<x>> \o sorted
    ELSE <<Head(sorted)>> \o InsertDesc(Tail(sorted), x)

RECURSIVE SortDesc(_)
\* list.sort(key=score, reverse=True): descending, and stable
SortDesc(outs) ==
    IF outs = <<>> THEN <<>>
    ELSE InsertDesc(SortDesc(SubSeq(outs, 1, Len(outs) - 1)), outs[Len(outs)])

\* "if max_results: all_results = all_results[:max_results]"; an absent
\* max_results is <<>>, a given one is <<n>>
Truncate(all_results, max_results) ==
    IF max_results # <<>> /\ max_results[1] # 0
    THEN SubSeq(all_results, 1,
                IF max_results[1] < Len(all_results)
                THEN max_results[1] ELSE Len(all_results))
    ELSE all_results


\* "for ticker, output in results_by_ticker.items(): try: ... except": the
\* analysis of a ticker whose price history cannot be had raises, which
\* leaves that output as it is and the loop running.
AnalyzePositionsBug(outs, m) ==
    [i \in 1..Len(outs) |->
        IF \A j \in 1..i : m[outs[j].ticker].ohlcv = "ok"
        THEN [outs[i] EXCEPT !.stop_recommendation = "StopRecommendation"]
        ELSE outs[i]]

AnalyzePositions(outs, m) ==
    [i \in 1..Len(outs) |->
        IF m[outs[i].ticker].ohlcv = "ok"
        THEN [outs[i] EXCEPT !.stop_recommendation = "StopRecommendation"]
        ELSE outs[i]]


(***************************************************************************)
(* ScreenerManager.__init__ and _fetch_fundamentals_parallel               *)
(***************************************************************************)

\* str.lower() on the universe names the model passes
Lower(name) ==
    CASE name = "SP500" -> "sp500"
      [] name = "NASDAQ100" -> "nasdaq100"
      [] OTHER -> name

\* the keys of the dict providers of get_universe
ProviderNames ==
    {"sp500", "s&p500", "nasdaq100", "nasdaq", "russell2000", "russell",
     "all", "all_markets", "custom"}

\* "if not provider_class: raise ValueError"
GetUniverseRaisesBug(name) == FALSE

GetUniverseRaises(name) == Lower(name) \notin ProviderNames

\* max_workers: int = 5
DefaultMaxWorkers == 5

\* "if progress_callback and completed % 10 == 0"
ProgressEvery == 10

NoManager == [present |-> FALSE, universe_name |-> None, max_workers |-> 0]

\* a concurrent.futures.Future: PENDING, RUNNING or FINISHED, and whether
\* the call raised
Future(state, raised) == [state |-> state, raised |-> raised]

Running(fs) == {t \in DOMAIN fs : fs[t].state = "RUNNING"}

\* the work queue of the executor is first in, first out: the tasks were
\* submitted in the order of the list tickers
NextQueued(ts, fs) ==
    LET queued == SelectSeq(ts, LAMBDA t : fs[t].state = "PENDING")
    IN  IF queued = <<>> THEN None ELSE Head(queued)

\* ThreadPoolExecutor(max_workers=self.max_workers): the pool never has more
\* than max_workers threads, and each thread runs one task at a time
CanStartBug(running, max_workers) == TRUE

CanStart(running, max_workers) == running < max_workers

\* "ticker = future_to_ticker[future]"
FutureToTickerBug(t, n, ts) == ts[n]

FutureToTicker(t, n, ts) == t

\* "except Exception as e: print(...)": the exception of a future ends with
\* the iteration
FetchErrorFatalBug(future) == future.raised

FetchErrorFatal(future) == FALSE


\* Inputs of run_screen.
MaxUniverse == 2

MaxTop == 1

MaxWorkers == 2

\* the names a manager is constructed with
UniverseNames == {"SP500", "dow30"}

Universe == SubSeq(<<"AAPL", "MSFT", "NVDA", "TSLA", "AMD">>, 1, MaxUniverse)

TickerSet == {Universe[i] : i \in 1..Len(Universe)}

\* nothing has been called
NoCalls ==
    [get_tickers |-> 0, progress |-> 0,
     get_fundamentals |-> [t \in TickerSet |-> 0],
     analyze |-> [t \in TickerSet |-> 0]]

StrategyLists ==
    {<<"canslim">>, <<"high_volatility">>, <<"canslim", "minervini">>,
     <<"minervini", "high_volatility", "canslim">>, <<"momentum">>}

MinScores == {NoneR, R(60)}

MaxResults == {<<>>, <<0>>, <<MaxTop>>}

CapCategories == {{}, {"mega", "large"}}

\* the defaults of the signature of run_screen and of the configuration
DefaultArgs ==
    [strategy_names |-> <<>>, combine_mode |-> "union", min_score |-> NoneR,
     max_results |-> <<>>, apply_filters |-> TRUE,
     calculate_positions |-> TRUE, cap_categories |-> {},
     analyst_scoring_enabled |-> TRUE]

\* no run_screen call
ScreenIdle ==
    /\ pc = "idle"
    /\ market = [t \in TickerSet |-> MarketData(NoFundamentals, "error")]
    /\ args = DefaultArgs
    /\ tickers = <<>>
    /\ pending = {}
    /\ fundamentals = <<>>
    /\ results_by_ticker = <<>>
    /\ summary = NoSummary
    /\ manager = NoManager
    /\ futures = <<>>
    /\ completed = 0
    /\ calls = NoCalls

\* a ScreenerManager is about to be constructed and run_screen called on it
ScreenInit ==
    /\ pc = "new"
    /\ market \in [TickerSet -> Fixtures]
    /\ args = DefaultArgs
    /\ tickers = <<>>
    /\ pending = {}
    /\ fundamentals = <<>>
    /\ results_by_ticker = <<>>
    /\ summary = NoSummary
    /\ manager = NoManager
    /\ futures = <<>>
    /\ completed = 0
    /\ calls = NoCalls

\* ScreenerManager.__init__: get_universe comes first and its ValueError
\* leaves no manager behind.
NewManager(universe, workers) ==
    /\ pc = "new"
    /\ IF GetUniverseRaises(universe)
       THEN /\ pc' = "rejected"
            /\ manager' = [manager EXCEPT !.universe_name = universe]
       ELSE /\ pc' = "start"
            /\ manager' = [present |-> TRUE, universe_name |-> universe,
                           max_workers |-> workers]
    /\ UNCHANGED <<market, args, tickers, pending, fundamentals,
                   results_by_ticker, summary, futures, completed, calls,
                   nonScreenVars>>

\* Validate the strategies, load the universe and submit one fetch per ticker.
\* progress_callback is a callback that counts its invocations.
StartScreen(strategy_names) ==
    /\ pc = "start"
    /\ args' = [args EXCEPT !.strategy_names = strategy_names]
    /\ IF \E i \in 1..Len(strategy_names) :
              strategy_names[i] \notin AvailableStrategies
       THEN /\ pc' = "raised"
            /\ UNCHANGED <<tickers, pending, futures, calls>>
       ELSE /\ pc' = "fetch"
            /\ tickers' = Universe
            /\ pending' = TickerSet
            /\ futures' = [t \in TickerSet |-> Future("PENDING", FALSE)]
            /\ calls' = [calls EXCEPT !.get_tickers = @ + 1,
                                      !.progress = @ + 2]
    /\ UNCHANGED <<market, fundamentals, results_by_ticker, summary, manager,
                   completed, nonScreenVars>>

\* A worker thread of the pool takes the oldest queued task and calls
\* get_fundamentals.
WorkerStart(t) ==
    /\ pc = "fetch"
    /\ t \in DOMAIN futures
    /\ futures[t].state = "PENDING"
    /\ t = NextQueued(tickers, futures)
    /\ CanStart(Cardinality(Running(futures)), manager.max_workers)
    /\ futures' = [futures EXCEPT ![t] = Future("RUNNING", FALSE)]
    /\ calls' = [calls EXCEPT !.get_fundamentals[t] = @ + 1]
    /\ UNCHANGED <<pc, market, args, tickers, pending, fundamentals,
                   results_by_ticker, summary, manager, completed,
                   nonScreenVars>>

\* get_fundamentals returns or raises in its worker thread; a ticker the
\* source has data for returns it, any other returns None or raises.
WorkerFinish(t, raised) ==
    /\ pc = "fetch"
    /\ t \in DOMAIN futures
    /\ futures[t].state = "RUNNING"
    /\ raised => ~market[t].fund.present
    /\ futures' = [futures EXCEPT ![t] = Future("FINISHED", raised)]
    /\ UNCHANGED <<pc, market, args, tickers, pending, fundamentals,
                   results_by_ticker, summary, manager, completed, calls,
                   nonScreenVars>>

\* _fetch_fundamentals_parallel: the future of ticker t is the next one
\* as_completed yields; one iteration of the loop over the futures.
FetchDone(t) ==
    /\ pc = "fetch"
    /\ t \in pending
    /\ futures[t].state = "FINISHED"
    /\ pending' = pending \ {t}
    /\ completed' = completed + 1
    /\ LET ticker == FutureToTicker(t, completed', tickers)
           fund_data == market[t].fund
       IN  IF futures[t].raised
           THEN /\ pc' = IF FetchErrorFatal(futures[t]) THEN "raised" ELSE pc
                /\ UNCHANGED <<fundamentals, calls>>
           ELSE /\ pc' = pc
                /\ fundamentals' =
                      IF fund_data.present
                      THEN (ticker :> fund_data) @@ fundamentals
                      ELSE fundamentals
                /\ calls' =
                      IF completed' % ProgressEvery = 0
                      THEN [calls EXCEPT !.progress = @ + 1]
                      ELSE calls
    /\ UNCHANGED <<market, args, tickers, results_by_ticker, summary, manager,
                   futures, nonScreenVars>>

\* _fetch_fundamentals_parallel returns, which ends its locals, and
\* "if apply_filters: tickers = universe_filter.filter_tickers(...)"
ApplyFilters(apply_filters, cap_categories) ==
    /\ pc = "fetch"
    /\ pending = {}
    /\ pc' = "score"
    /\ futures' = <<>>
    /\ completed' = 0
    /\ calls' = IF apply_filters THEN [calls EXCEPT !.progress = @ + 3]
                ELSE calls
    /\ args' = [args EXCEPT !.apply_filters = apply_filters,
                            !.cap_categories = cap_categories]
    /\ tickers' =
          IF apply_filters
          THEN FilterTickers(
                   UniverseFilter(ConfigMinPrice, ConfigMinVolume, NoneR, NoneR,
                                  cap_categories, {}, {}, {}, {}),
                   tickers, fundamentals)
          ELSE tickers
    /\ UNCHANGED <<market, pending, fundamentals, results_by_ticker, summary,
                   manager, nonScreenVars>>

\* The loop that runs the screeners, combines and adjusts the scores.
RunScreeners(combine_mode, enabled, min_score) ==
    /\ pc = "score"
    /\ LET a == [args EXCEPT !.combine_mode = combine_mode,
                             !.analyst_scoring_enabled = enabled,
                             !.min_score = min_score]
       IN  /\ args' = a
           /\ IF ScoringRaises(tickers, fundamentals, a)
              THEN /\ pc' = "raised"
                   /\ calls' = [calls EXCEPT !.progress = @ + 1]
                   /\ UNCHANGED results_by_ticker
              ELSE /\ pc' = "size"
                   /\ calls' = [calls EXCEPT !.progress = @ + 2]
                   /\ results_by_ticker' = ScoreAll(tickers, fundamentals, a)
    /\ UNCHANGED <<market, tickers, pending, fundamentals, summary, manager,
                   futures, completed, nonScreenVars>>

\* "if calculate_positions:" one stop analysis per entry of
\* results_by_ticker; an analysis that raises leaves the entry as it is.
SizePositions(calculate_positions) ==
    /\ pc = "size"
    /\ pc' = "rank"
    /\ args' = [args EXCEPT !.calculate_positions = calculate_positions]
    /\ results_by_ticker' =
          IF calculate_positions
          THEN AnalyzePositions(results_by_ticker, market)
          ELSE results_by_ticker
    /\ calls' =
          IF calculate_positions
          THEN [calls EXCEPT !.progress = @ + 1,
                   !.analyze = [t \in TickerSet |->
                       IF \E i \in 1..Len(results_by_ticker) :
                             results_by_ticker[i].ticker = t
                       THEN @[t] + 1 ELSE @[t]]]
          ELSE calls
    /\ UNCHANGED <<market, tickers, pending, fundamentals, summary, manager,
                   futures, completed, nonScreenVars>>

\* Sort, cut to max_results and return the summary.
Rank(max_results) ==
    /\ pc = "rank"
    /\ pc' = "done"
    /\ args' = [args EXCEPT !.max_results = max_results]
    /\ LET all_results == Truncate(SortDesc(results_by_ticker), max_results)
       IN  summary' =
              ScreenSummary(args.strategy_names, Len(Universe),
                            Len(results_by_ticker),
                            Cardinality({i \in 1..Len(all_results) :
                                all_results[i].stop_recommendation # None}),
                            all_results, args.combine_mode)
    /\ calls' = [calls EXCEPT !.progress = @ + 1]
    /\ UNCHANGED <<market, tickers, pending, fundamentals, results_by_ticker,
                   manager, futures, completed, nonScreenVars>>

ScreenNext ==
    \/ \E universe \in UniverseNames : NewManager(universe, DefaultMaxWorkers)
    \/ \E names \in StrategyLists : StartScreen(names)
    \/ \E t \in TickerSet : WorkerStart(t)
    \/ \E t \in TickerSet, raised \in BOOLEAN : WorkerFinish(t, raised)
    \/ \E t \in TickerSet : FetchDone(t)
    \/ \E apply_filters \in BOOLEAN :
          \E caps \in (IF apply_filters THEN CapCategories ELSE {{}}) :
              ApplyFilters(apply_filters, caps)
    \/ \E mode \in {"union", "intersection"}, enabled \in BOOLEAN,
          min_score \in MinScores : RunScreeners(mode, enabled, min_score)
    \/ \E calc \in BOOLEAN : SizePositions(calc)
    \/ \E max_results \in MaxResults : Rank(max_results)

(***************************************************************************)
(* position/trailing_stop.py: compute_trailing_stop                        *)
(***************************************************************************)

\* "stop_distance = current_price - stop_level"
StopDistanceBug(current_price, stop_level) ==
    RMax(R(0), RSub(current_price, stop_level))

StopDistance(current_price, stop_level) == RSub(current_price, stop_level)

\* compute_trailing_stop; ticker, recent_high_date and atr_period are copied
\* into the result unchanged
ComputeTrailingStop(current_price, recent_high, atr, multiplier) ==
    LET stop_distance_from_high == RMul(multiplier, atr)
        stop_level == RSub(recent_high, stop_distance_from_high)
        stop_distance == StopDistance(current_price, stop_level)
        stop_distance_pct ==
            IF RLt(R(0), current_price)
            THEN RMul(RDiv(stop_distance, current_price), R(100))
            ELSE R(0)
        risk_per_share == stop_distance
    IN  [raised |-> None, current_price |-> current_price,
         recent_high |-> recent_high, atr |-> atr, multiplier |-> multiplier,
         stop_level |-> stop_level, stop_distance |-> stop_distance,
         stop_distance_pct |-> stop_distance_pct,
         risk_per_share |-> risk_per_share]


(***************************************************************************)
(* position/stop_recommender.py: StopRecommendation.shares_for_risk        *)
(***************************************************************************)

\* int(x) of a float: the fraction is cut off, towards zero
ToIntBug(x) == -((-x[1]) \div x[2])

ToInt(x) == IF x[1] >= 0 THEN x[1] \div x[2] ELSE -((-x[1]) \div x[2])

\* shares_for_risk on a recommendation with the given risk_per_share;
\* divided tells whether the division was evaluated
SharesForRisk(risk_per_share, risk_dollars) ==
    IF RLe(risk_per_share, R(0))
    THEN [raised |-> None, shares |-> 0, divided |-> FALSE]
    ELSE [raised |-> None, shares |-> ToInt(RDiv(risk_dollars, risk_per_share)),
          divided |-> TRUE]


(***************************************************************************)
(* indicators/atr.py: compute_atr                                          *)
(***************************************************************************)

\* a row of the DataFrame
Bar(high, low, close) == [High |-> high, Low |-> low, Close |-> close]

\* float("nan") in a Series
NaN == <<0, 0>>

RAbs(x) == IF RLt(x, R(0)) THEN RSub(R(0), x) ELSE x

\* compute_true_range, row i: prev_close is NaN in the first row, and
\* max(axis=1) skips NaN
TrueRangeAt(df, i) ==
    LET hl == RSub(df[i].High, df[i].Low) IN
    IF i = 1 THEN hl
    ELSE RMax(hl, RMax(RAbs(RSub(df[i].High, df[i - 1].Close)),
                       RAbs(RSub(df[i].Low, df[i - 1].Close))))

RECURSIVE ComputeTrueRange(_, _)
\* compute_true_range, rows 1..n
ComputeTrueRange(df, n) ==
    IF n = 0 THEN <<>>
    ELSE ComputeTrueRange(df, n - 1) \o <<TrueRangeAt(df, n)>>

RECURSIVE RSum(_)
RSum(xs) == IF xs = <<>> THEN R(0) ELSE RAdd(Head(xs), RSum(Tail(xs)))

\* Series.mean() of a series without NaN
Mean(xs) == RDiv(RSum(xs), R(Len(xs)))

RECURSIVE NaNs(_)
NaNs(n) == IF n = 0 THEN <<>> ELSE <<NaN>> \o NaNs(n - 1)

RECURSIVE WilderUpTo(_, _, _)
\* compute_atr_wilder, entries 1..n, for a series of at least period values
WilderUpTo(true_range, period, n) ==
    IF n < period THEN NaNs(n)
    ELSE IF n = period
         THEN NaNs(period - 1) \o <<Mean(SubSeq(true_range, 1, period))>>
    ELSE LET atr == WilderUpTo(true_range, period, n - 1)
             multiplier == Rat(period - 1, period)
         IN  atr \o <<RAdd(RMul(multiplier, atr[n - 1]),
                           RDiv(true_range[n], R(period)))>>

\* compute_atr_wilder
ComputeAtrWilder(true_range, period) ==
    IF Len(true_range) < period THEN NaNs(Len(true_range))
    ELSE WilderUpTo(true_range, period, Len(true_range))

RECURSIVE SmaUpTo(_, _, _)
\* rolling(window=period).mean(), entries 1..n
SmaUpTo(true_range, period, n) ==
    IF n = 0 THEN <<>>
    ELSE SmaUpTo(true_range, period, n - 1)
            \o <<IF n < period THEN NaN
                 ELSE Mean(SubSeq(true_range, n - period + 1, n))>>

\* compute_atr_sma
ComputeAtrSma(true_range, period) ==
    SmaUpTo(true_range, period, Len(true_range))

RECURSIVE EmaUpTo(_, _, _)
\* ewm(span=period, adjust=False).mean(), entries 1..n: alpha = 2/(span+1)
EmaUpTo(true_range, period, n) ==
    IF n = 0 THEN <<>>
    ELSE IF n = 1 THEN <<true_range[1]>>
    ELSE LET atr == EmaUpTo(true_range, period, n - 1)
             alpha == Rat(2, period + 1)
         IN  atr \o <<RAdd(RMul(RSub(R(1), alpha), atr[n - 1]),
                           RMul(alpha, true_range[n]))>>

\* compute_atr_ema
ComputeAtrEma(true_range, period) ==
    EmaUpTo(true_range, period, Len(true_range))

\* str.lower() on the method names the model passes
MethodLower(method) ==
    CASE method = "Wilder" -> "wilder"
      [] OTHER -> method

\* "if len(df) < period + 1: raise ValueError(Insufficient data ...)"
InsufficientBug(rows, period) == rows < period

Insufficient(rows, period) == rows < period + 1

\* compute_atr: what it raises, or the current_atr of the ATRResult
ComputeAtr(df, period, method) ==
    IF Insufficient(Len(df), period)
    THEN [raised |-> "ValueError: Insufficient data", current_atr |-> NaN]
    ELSE LET true_range == ComputeTrueRange(df, Len(df))
             m == MethodLower(method)
             atr_series ==
                 CASE m = "wilder" -> ComputeAtrWilder(true_range, period)
                   [] m = "sma" -> ComputeAtrSma(true_range, period)
                   [] m = "ema" -> ComputeAtrEma(true_range, period)
                   [] OTHER -> <<>>
             dropna == SelectSeq(atr_series, LAMBDA x : ~IsNone(x))
         IN  IF m \notin {"wilder", "sma", "ema"}
             THEN [raised |-> "ValueError: Unknown ATR method",
                   current_atr |-> NaN]
             ELSE [raised |-> None,
                   current_atr |->
                       IF dropna # <<>> THEN dropna[Len(dropna)] ELSE NaN]


(***************************************************************************)
(* indicators/volatility_regime.py: classify_regime                        *)
(***************************************************************************)

\* the thresholds used where the argument is None
DefaultThresholds ==
    [low |-> R(25), normal |-> R(75), elevated |-> R(90), extreme |-> R(100)]

\* "if percentile <= thresholds[...]"
WithinBug(percentile, threshold) == RLt(percentile, threshold)

Within(percentile, threshold) == RLe(percentile, threshold)

\* classify_regime; thresholds is <<>> for None and <<dict>> for a dict
ClassifyRegime(percentile, thresholds) ==
    LET used == IF thresholds = <<>> THEN DefaultThresholds
                ELSE thresholds[1] IN
    IF Within(percentile, used.low) THEN "low"
    ELSE IF Within(percentile, used.normal) THEN "normal"
    ELSE IF Within(percentile, used.elevated) THEN "elevated"
    ELSE "extreme"


(***************************************************************************)
(* Calls of the pure functions.                                            *)
(***************************************************************************)
MaxBars == 3        \* rows of the DataFrame given to compute_atr

MaxPeriod == 2      \* largest ATR period

Prices == {R(0), R(50), R(100), R(110), R(120)}

Highs == {R(100), R(120)}

Atrs == {R(0), Rat(5, 2), R(5)}

Multipliers == {Rat(3, 2), R(2), R(3)}

RisksPerShare == {R(-10), R(0), R(2), Rat(5, 2), R(3)}

RiskDollars == {R(-5), R(0), R(7), R(10), Rat(1001, 10)}

\* a quiet day, a wide day and a day that opens far above the others
BarSet == {Bar(R(2), R(2), R(2)), Bar(R(4), R(1), R(3)), Bar(R(9), R(8), R(8))}

DataFrames == UNION {[1..n -> BarSet] : n \in 0..MaxBars}

Methods == {"wilder", "sma", "ema", "Wilder", "hull"}

ThresholdValues == {R(0), R(25), R(75), R(90), R(100)}

\* thresholds in ascending order that end at 100, and None for the defaults
ThresholdSets ==
    {<<>>} \cup
    {<<[low |-> l, normal |-> n, elevated |-> e, extreme |-> R(100)]>> :
        <<l, n, e>> \in {t \in ThresholdValues \X ThresholdValues \X ThresholdValues :
                            RLe(t[1], t[2]) /\ RLe(t[2], t[3])}}

Percentiles ==
    {R(0), R(25), Rat(51, 2), R(75), R(80), R(90), Rat(181, 2), R(100)}

\* Inputs of filter_tickers.
MaxFilterTickers == 2   \* length of the ticker list that is filtered

FilterNames == {"AAPL", "MSFT"}

\* yfinance reports no marketCap for this one
Unlisted == [Volatile EXCEPT !.market_cap = NoneR]

\* too little volume for ConfigMinVolume
Illiquid == [Leader EXCEPT !.avg_volume_50d = R(100000)]

FilterSnapshots ==
    {PostInit(f) : f \in {Leader, Mixed, Volatile, Unlisted, Illiquid, Penny}}

FilterData == UNION {[S -> FilterSnapshots] : S \in SUBSET FilterNames}

FilterLists == UNION {[1..n -> FilterNames] : n \in 0..MaxFilterTickers}

UniverseFilters ==
    {UniverseFilter(ConfigMinPrice, ConfigMinVolume, NoneR, NoneR, c, s, xs, i, xi) :
        c \in CapCategories, s \in {{}, {"Technology"}},
        xs \in {{}, {"Technology"}}, i \in {{}, {"Software"}},
        xi \in {{}, {"Software"}}}

PureCalls ==
    {[name |-> "compute_trailing_stop", current_price |-> c, recent_high |-> h,
      atr |-> a, multiplier |-> m] :
        c \in Prices, h \in Highs, a \in Atrs, m \in Multipliers}
    \cup {[name |-> "shares_for_risk", risk_per_share |-> r, risk_dollars |-> d] :
            r \in RisksPerShare, d \in RiskDollars}
    \cup {[name |-> "compute_atr", df |-> df, period |-> p, method |-> m] :
            df \in DataFrames, p \in 1..MaxPeriod, m \in Methods}
    \cup {[name |-> "classify_regime", percentile |-> p, thresholds |-> ts] :
            p \in Percentiles, ts \in ThresholdSets}
    \cup {[name |-> "compute_true_range", df |-> df] : df \in DataFrames}
    \cup {[name |-> "compute_atr_wilder", df |-> df, period |-> p] :
            df \in DataFrames, p \in 1..MaxPeriod}
    \cup {[name |-> "filter_tickers", uf |-> uf, tickers |-> ts,
           fundamental_data |-> fd] :
            uf \in UniverseFilters, ts \in FilterLists, fd \in FilterData}

NoCall == [name |-> None]

NoOut == [raised |-> "not called"]

\* no pure function is called
PureIdle == fn = NoCall /\ fout = NoOut

\* one of the pure functions is about to be called
PureInit == fn \in PureCalls /\ fout = NoOut

CallComputeTrailingStop ==
    /\ fn.name = "compute_trailing_stop"
    /\ fout = NoOut
    /\ fout' = ComputeTrailingStop(fn.current_price, fn.recent_high, fn.atr,
                                  fn.multiplier)
    /\ UNCHANGED <<fn, nonPureVars>>

CallSharesForRisk ==
    /\ fn.name = "shares_for_risk"
    /\ fout = NoOut
    /\ fout' = SharesForRisk(fn.risk_per_share, fn.risk_dollars)
    /\ UNCHANGED <<fn, nonPureVars>>

CallComputeAtr ==
    /\ fn.name = "compute_atr"
    /\ fout = NoOut
    /\ fout' = ComputeAtr(fn.df, fn.period, fn.method)
    /\ UNCHANGED <<fn, nonPureVars>>

CallClassifyRegime ==
    /\ fn.name = "classify_regime"
    /\ fout = NoOut
    /\ fout' = [raised |-> None,
               regime |-> ClassifyRegime(fn.percentile, fn.thresholds)]
    /\ UNCHANGED <<fn, nonPureVars>>

CallFilterTickers ==
    /\ fn.name = "filter_tickers"
    /\ fout = NoOut
    /\ fout' = [raised |-> None,
               filtered |-> FilterTickers(fn.uf, fn.tickers, fn.fundamental_data)]
    /\ UNCHANGED <<fn, nonPureVars>>

CallComputeTrueRange ==
    /\ fn.name = "compute_true_range"
    /\ fout = NoOut
    /\ fout' = [raised |-> None, true_range |-> ComputeTrueRange(fn.df, Len(fn.df))]
    /\ UNCHANGED <<fn, nonPureVars>>

\* compute_atr_wilder(compute_true_range(df), period), as compute_atr calls it
CallComputeAtrWilder ==
    /\ fn.name = "compute_atr_wilder"
    /\ fout = NoOut
    /\ fout' = [raised |-> None,
               atr |-> ComputeAtrWilder(ComputeTrueRange(fn.df, Len(fn.df)),
                                        fn.period)]
    /\ UNCHANGED <<fn, nonPureVars>>

PureNext ==
    \/ CallComputeTrailingStop
    \/ CallSharesForRisk
    \/ CallComputeAtr
    \/ CallClassifyRegime
    \/ CallFilterTickers
    \/ CallComputeTrueRange
    \/ CallComputeAtrWilder


(***************************************************************************)
(* data/fundamentals_provider.py: FundamentalsProvider.get_fundamentals    *)
(***************************************************************************)
MaxProviderCalls == 3   \* get_fundamentals calls per behaviour
MaxHalfDays == 3        \* half days the clock may advance

HalfDay == 12           \* hours

\* cache.set(cache_key, ..., ttl=24)
FundamentalsTtl == 24

\* the ticker the provider is asked for, and f"fundamentals:{ticker}"
ProviderTicker == "AAPL"

CacheKey(ticker) ==
    IF ticker = ProviderTicker THEN "fundamentals:AAPL" ELSE "fundamentals:other"

\* info['marketCap'] as yfinance reports it, in millions; None when absent
CapInputs == {NoneR, R(0), R(299), R(300), R(2000), R(10000), R(200000)}

\* what the source has: no price history (get_ohlcv raises or df.empty), or
\* a quote with some market cap; the category is not among the arguments
\* get_fundamentals passes to FundamentalData
Quote(market_cap) ==
    [Leader EXCEPT !.market_cap = market_cap, !.market_cap_category = None]
        @@ Bullish

Sources == {NoFundamentals} \cup {Quote(c) : c \in CapInputs}

\* FundamentalData(...) as get_fundamentals builds it at time at:
\* __post_init__ sets fetched_at and derives the category
Snapshot(quote, at) == PostInit([fetched_at |-> at] @@ quote)

\* to_dict: asdict(self)
ToDict(f) == [x \in (DOMAIN f) \ {"present"} |-> f[x]]

\* from_dict: cls(**data), which runs __post_init__ again
FromDict(data) == PostInit([present |-> TRUE] @@ data)

\* "if self.use_cache and not force_refresh"
ConsultsCacheBug(use_cache, force_refresh) == FALSE
ConsultsCache(use_cache, force_refresh) == use_cache /\ ~force_refresh

\* nothing was stored by a fetch
NoStored == [present |-> FALSE, at |-> 0, data |-> NoFundamentals]

NoProvider ==
    [use_cache |-> FALSE, calls |-> 0, source_calls |-> 0,
     returned |-> NoFundamentals, fetched |-> FALSE, forced |-> FALSE,
     stored |-> NoStored, first |-> NoStored]

ProvIdle == source = NoFundamentals /\ prov = NoProvider

\* FundamentalsProvider(use_cache=...) on an empty cache directory
ProvInit ==
    /\ source \in Sources
    /\ \E use_cache \in BOOLEAN : prov = [NoProvider EXCEPT !.use_cache = use_cache]

\* get_fundamentals(ticker, force_refresh=...): the cache is consulted, and
\* on a miss the source is asked and the snapshot built from it is cached.
\* stored remembers what the last fetch that succeeded handed to cache.set,
\* first what the first one did.
GetFundamentals(ticker, force_refresh) ==
    /\ prov.calls < MaxProviderCalls
    /\ LET cache_key == CacheKey(ticker)
           consults == ConsultsCache(prov.use_cache, force_refresh)
           o == GetOutcome(cache_key)
           cached == consults /\ o.hit
           fs == IF consults THEN o.fs ELSE files
           fundamental_data == Snapshot(source, now)
           called == [prov EXCEPT !.calls = @ + 1, !.forced = force_refresh]
       IN  /\ hits' = IF consults /\ o.hit THEN hits + 1 ELSE hits
           /\ misses' = IF consults /\ ~o.hit THEN misses + 1 ELSE misses
           /\ IF cached
              THEN /\ files' = fs
                   /\ sets' = sets
                   /\ prov' = [called EXCEPT !.returned = FromDict(o.data),
                                             !.fetched = FALSE]
              ELSE IF ~source.present
              THEN /\ files' = fs
                   /\ sets' = sets
                   /\ prov' = [called EXCEPT !.source_calls = @ + 1,
                                             !.returned = NoFundamentals,
                                             !.fetched = TRUE]
              ELSE /\ files' =
                         IF prov.use_cache
                         THEN Put(fs, cache_key,
                                  EntryChunks(CacheEntry(ToDict(fundamental_data),
                                                         now, FundamentalsTtl,
                                                         cache_key)))
                         ELSE fs
                   /\ sets' = IF prov.use_cache THEN sets + 1 ELSE sets
                   /\ prov' = [called EXCEPT
                                 !.source_calls = @ + 1,
                                 !.returned = fundamental_data,
                                 !.fetched = TRUE,
                                 !.stored = IF prov.use_cache
                                            THEN [present |-> TRUE, at |-> now,
                                                  data |-> fundamental_data]
                                            ELSE @,
                                 !.first = IF prov.use_cache /\ ~@.present
                                           THEN [present |-> TRUE, at |-> now,
                                                 data |-> fundamental_data]
                                           ELSE @]
    /\ UNCHANGED <<now, ret, hist, ncalls, th, source,
                   analystVars, screenVars, pureVars, poolVars, cmVars>>

\* half a day passes and the market moves
ProviderTick(quote) ==
    /\ now < HalfDay * MaxHalfDays
    /\ now' = now + HalfDay
    /\ source' = quote
    /\ UNCHANGED <<files, hits, misses, sets, ret, hist, ncalls, th, prov,
                   analystVars, screenVars, pureVars, poolVars, cmVars>>

ProviderNext ==
    \/ \E force_refresh \in BOOLEAN : GetFundamentals(ProviderTicker, force_refresh)
    \/ \E quote \in Sources : ProviderTick(quote)


(***************************************************************************)
(* screeners/screener_manager.py: _fetch_fundamentals_parallel on a        *)
(* universe long enough for the rate limit, its tasks counted by state.    *)
(***************************************************************************)
MaxTasks == 51          \* tickers handed to _fetch_fundamentals_parallel

\* "if completed % 50 == 0: time.sleep(1)"
SleepEvery == 50

\* no fetch is going on
NoPool ==
    [max_workers |-> 0, queued |-> 0, running |-> 0, finished |-> 0,
     failed |-> 0, completed |-> 0, sleeping |-> FALSE]

PoolIdle == pool = NoPool

\* every ticker has been submitted to ThreadPoolExecutor(max_workers)
PoolInit ==
    \E max_workers \in 1..MaxWorkers, total \in (MaxTasks - 1)..MaxTasks :
        pool = [NoPool EXCEPT !.max_workers = max_workers, !.queued = total]

\* a free worker thread takes the next queued task and calls
\* get_fundamentals; the worker threads do not look at what the thread that
\* collects the results is doing
TaskStart ==
    /\ pool.queued > 0
    /\ CanStart(pool.running, pool.max_workers)
    /\ pool' = [pool EXCEPT !.queued = @ - 1, !.running = @ + 1]
    /\ UNCHANGED <<cacheVars, analystVars, screenVars, pureVars, provVars,
                   cmVars>>

\* get_fundamentals returns or raises in its worker thread
TaskFinish(raised) ==
    /\ pool.running > 0
    /\ pool' = [pool EXCEPT !.running = @ - 1,
                            !.finished = IF raised THEN @ ELSE @ + 1,
                            !.failed = IF raised THEN @ + 1 ELSE @]
    /\ UNCHANGED <<cacheVars, analystVars, screenVars, pureVars, provVars,
                   cmVars>>

\* one iteration of the loop over as_completed: completed += 1, and after
\* future.result() returned, time.sleep(1) when completed is a multiple of
\* 50; a future that raised goes to the except clause, past the sleep
TaskCollected(raised) ==
    /\ ~pool.sleeping
    /\ IF raised THEN pool.failed > 0 ELSE pool.finished > 0
    /\ pool' = [pool EXCEPT
                  !.finished = IF raised THEN @ ELSE @ - 1,
                  !.failed = IF raised THEN @ - 1 ELSE @,
                  !.completed = @ + 1,
                  !.sleeping = ~raised /\ (pool.completed + 1) % SleepEvery = 0]
    /\ UNCHANGED <<cacheVars, analystVars, screenVars, pureVars, provVars,
                   cmVars>>

\* time.sleep(1) returns
SleepEnds ==
    /\ pool.sleeping
    /\ pool' = [pool EXCEPT !.sleeping = FALSE]
    /\ UNCHANGED <<cacheVars, analystVars, screenVars, pureVars, provVars,
                   cmVars>>

PoolNext ==
    \/ TaskStart
    \/ \E raised \in BOOLEAN : TaskFinish(raised)
    \/ \E raised \in BOOLEAN : TaskCollected(raised)
    \/ SleepEnds

(***************************************************************************)
(* data/cache_manager.py: the CacheManager singleton                       *)
(***************************************************************************)

\* CacheManager() has run: _initialized is True and __init__ swept once
CmConstructed == [initialized |-> TRUE, sweeps |-> 1]

CmReady == cm = CmConstructed

\* the process has not built its CacheManager yet
CmFresh == cm = [initialized |-> FALSE, sweeps |-> 0]

\* What an earlier process left under a key: an entry that is still live, an
\* entry past its expiry time, or a file cut short by a failed json.dump.
LeftKinds == {"live", "expired", "cut"}

LeftBehind(k, kind) ==
    CASE kind = "live" -> EntryChunks(CacheEntry("dict", -1, MaxTtl, k))
      [] kind = "expired" -> EntryChunks(CacheEntry("dict", -2, 1, k))
      [] kind = "cut" -> SubSeq(EntryChunks(CacheEntry(None, -1, 1, k)), 1, 1)

StartDirs ==
    UNION {{[k \in S |-> LeftBehind(k, kind[k])] : kind \in [S -> LeftKinds]} :
              S \in SUBSET Keys}

\* the cache directory as the process finds it
CacheStart ==
    /\ files \in StartDirs
    /\ now = 0
    /\ hits = 0
    /\ misses = 0
    /\ sets = 0
    /\ ret = NoRet
    /\ hist = [k \in Keys |-> NoHist]
    /\ ncalls = 0
    /\ th = [t \in Threads |-> IdleThread]

\* CacheManager(): __new__ hands out the one instance, __init__ returns at
\* once when it is initialised and otherwise zeroes the counters and calls
\* clear_expired
NewCacheManager ==
    /\ ncalls < MaxCalls
    /\ IF cm.initialized
       THEN UNCHANGED <<cm, files, hits, misses, sets, hist>>
       ELSE /\ cm' = [initialized |-> TRUE, sweeps |-> cm.sweeps + 1]
            /\ hits' = 0
            /\ misses' = 0
            /\ sets' = 0
            /\ files' = [x \in (DOMAIN files) \ Doomed(files, now) |-> files[x]]
            /\ hist' = [k \in Keys |-> [hist[k] EXCEPT !.cleared = TRUE]]
    /\ ret' = Ret("CacheManager", None, FALSE, None, TRUE, 0, now)
    /\ ncalls' = ncalls + 1
    /\ UNCHANGED <<now, th, analystVars, screenVars, pureVars, provVars, poolVars>>

\* the methods are called on the instance CacheManager() returned
CacheStartNext ==
    \/ NewCacheManager
    \/ cm.initialized /\ CacheNext


Init ==
    CacheInit /\ AnalystIdle /\ ScreenIdle /\ PureIdle /\ ProvIdle /\ PoolIdle /\ CmReady

SpecCacheConc == Init /\ [][ConcNext]_vars

\* calculate_score is called on some AnalystScoring instance
InitAnalyst ==
    CacheInit /\ AnalystInit /\ ScreenIdle /\ PureIdle /\ ProvIdle /\ PoolIdle /\ CmReady

SpecAnalyst == InitAnalyst /\ [][Calculate]_vars

\* run_screen is called on some market
InitScreen ==
    CacheInit /\ AnalystIdle /\ ScreenInit /\ PureIdle /\ ProvIdle /\ PoolIdle /\ CmReady

SpecScreen == InitScreen /\ [][ScreenNext]_vars

\* The fetch phase of run_screen on managers of every pool width.
FetchNext ==
    \/ \E universe \in UniverseNames, workers \in 1..MaxWorkers :
          NewManager(universe, workers)
    \/ \E names \in StrategyLists : StartScreen(names)
    \/ \E t \in TickerSet : WorkerStart(t)
    \/ \E t \in TickerSet, raised \in BOOLEAN : WorkerFinish(t, raised)
    \/ \E t \in TickerSet : FetchDone(t)
    \/ \E apply_filters \in BOOLEAN :
          \E caps \in (IF apply_filters THEN CapCategories ELSE {{}}) :
              ApplyFilters(apply_filters, caps)

InitFetch == InitScreen

SpecFetch == InitFetch /\ [][FetchNext]_vars

\* one of the pure functions is called
InitPure ==
    CacheInit /\ AnalystIdle /\ ScreenIdle /\ PureInit /\ ProvIdle /\ PoolIdle /\ CmReady

SpecPure == InitPure /\ [][PureNext]_vars

SpecCacheStats == Init /\ [][CacheStatsNext]_vars

\* a process starts on the cache directory an earlier one left behind
InitCacheStart ==
    CacheStart /\ AnalystIdle /\ ScreenIdle /\ PureIdle /\ ProvIdle /\ PoolIdle /\ CmFresh

SpecCacheStart == InitCacheStart /\ [][CacheStartNext]_vars

\* get_fundamentals is called on a provider, over and over
InitProvider ==
    CacheInit /\ AnalystIdle /\ ScreenIdle /\ PureIdle /\ ProvInit /\ PoolIdle /\ CmReady

SpecProvider == InitProvider /\ [][ProviderNext]_vars

\* a universe of MaxTasks tickers is fetched
InitPool ==
    CacheInit /\ AnalystIdle /\ ScreenIdle /\ PureIdle /\ ProvIdle /\ PoolInit /\ CmReady

SpecPool == InitPool /\ [][PoolNext]_vars

Next == CacheNext

Spec == Init /\ [][Next]_vars

(***************************************************************************)
(* Claims about the cache.                                                 *)
(***************************************************************************)

\* The last call was get(k) and a set on k came before it with no
\* invalidate/clear call in between.
GetAfterSet ==
    /\ ret.op = "get"
    /\ hist[ret.key].called
    /\ ~hist[ret.key].cleared

\* C1 as stated: a get(k) issued before the latest set(k, v, ttl) has expired
\* (ttl >= 1, no invalidate/clear in between) returns exactly v.
C1_ReturnsExactlyLatestValue ==
    (GetAfterSet /\ hist[ret.key].ttl >= 1
        /\ ret.at <= hist[ret.key].t + hist[ret.key].ttl)
    => (ret.hit /\ ret.data = hist[ret.key].data)

\* C1, amended: when the latest set(k, v, ttl) returned True and v is
\* JSON-native, a get(k) issued before it has expired (ttl >= 1, no
\* invalidate/clear in between) returns exactly v; whatever a get returns is
\* the JSON round trip of the value of the latest set on k, never an earlier
\* value, and it is returned only while timestamp + ttl of that latest set
\* has not passed.
C1_ReadYourLatestWrite ==
    /\ (GetAfterSet /\ hist[ret.key].ok /\ hist[ret.key].data \in JsonNativeValues
            /\ hist[ret.key].ttl >= 1
            /\ ret.at <= hist[ret.key].t + hist[ret.key].ttl)
       => (ret.hit /\ ret.data = hist[ret.key].data)
    /\ (ret.op = "get" /\ ret.hit)
       => /\ hist[ret.key].called
          /\ hist[ret.key].ok
          /\ ret.data = JsonRoundTrip(hist[ret.key].data)
          /\ ret.at <= hist[ret.key].t + hist[ret.key].ttl

\* C1 witness: a get returns the value of a set that overwrote an entry
\* holding another value and that was written at a later time.
C1_Witness ==
    /\ GetAfterSet
    /\ ret.hit
    /\ ret.data = hist[ret.key].data
    /\ hist[ret.key].prev \notin {None, ret.data}
    /\ hist[ret.key].t > 0

\* C2: a get(k) later than timestamp + ttl hours of the entry written by
\* set(k, v, ttl) returns a miss and leaves no backing entry for k; and the
\* store changes only inside a cache call, never by time passing alone.
C2_ExpiryOnRead ==
    /\ [](  (ret.op = "get" /\ hist[ret.key].called /\ hist[ret.key].ok
                /\ ret.at > hist[ret.key].t + hist[ret.key].ttl)
            => (~ret.hit /\ ret.key \notin DOMAIN files)  )
    /\ [][files' # files => ncalls' = ncalls + 1]_vars

\* C2 witness: a get ran after the expiry of an entry that was still in the
\* store, missed and removed it.
C2_Witness ==
    /\ GetAfterSet
    /\ hist[ret.key].ok
    /\ ret.at > hist[ret.key].t + hist[ret.key].ttl
    /\ ~ret.hit
    /\ ret.key \notin DOMAIN files
    /\ misses = 1

\* C3: the backing entry is at every instant absent or a complete entry, and
\* no get and no clear_expired sweep observes a partially written entry.
C3_AtomicWrites ==
    /\ \A k \in DOMAIN files : Parses(files[k])
    /\ \A t \in Threads : th[t].saw # "partial"

\* C4: when the backing file of k is corrupt (here: left behind by a set
\* whose json.dump raised), get(k) returns a miss and the file is removed.
C4_CorruptEntryRemoved ==
    (GetAfterSet /\ ~hist[ret.key].ok)
    => (~ret.hit /\ ret.key \notin DOMAIN files)

(***************************************************************************)
(* Claims about analyst scoring.                                           *)
(***************************************************************************)

MultiplierInRange ==
    /\ RLe(aCfg.min_multiplier, aOut.multiplier)
    /\ RLe(aOut.multiplier, aCfg.max_multiplier)

\* C10 as stated: for every configured [min_multiplier, max_multiplier] and
\* every input combination the returned multiplier lies within the range.
C10_MultiplierAlwaysInRange == aOut.present => MultiplierInRange

\* C10, amended: for every configured range with min_multiplier <= 1.0 <=
\* max_multiplier and every input combination (missing fields and thin
\* coverage included) the returned multiplier lies within the range; outside
\* thin coverage it does so for every range with min <= max.
C10_MultiplierBound ==
    aOut.present =>
        /\ (RLe(aCfg.min_multiplier, R(1)) /\ RLe(R(1), aCfg.max_multiplier))
           => MultiplierInRange
        /\ ~ThinCoverage(aCfg, aIn.analyst_count) => MultiplierInRange

\* C10 witness: a covered ticker whose composite score maps strictly between
\* neutral and the upper bound, under the default range.
C10_Witness ==
    /\ aOut.present
    /\ ~ThinCoverage(aCfg, aIn.analyst_count)
    /\ aCfg.min_multiplier = Rat(8, 10)
    /\ aCfg.max_multiplier = Rat(12, 10)
    /\ RLt(R(1), aOut.multiplier)
    /\ RLt(aOut.multiplier, aCfg.max_multiplier)

\* combined scores the multiplier of calculate_score is applied to
BaseScores == {R(0), Rat(65, 2), R(70), R(100)}

\* C11: whenever analyst_count is missing or below the configured minimum,
\* calculate_score returns upside, sentiment and momentum sub-scores of 50,
\* coverage sub-score 0, composite 50 and multiplier exactly 1, whatever the
\* other inputs are; and the final score that run_screen derives from a base
\* score with this result is the base score.
C11_ThinCoverageNeutral ==
    (aOut.present
        /\ (IsNone(aIn.analyst_count)
            \/ RLt(aIn.analyst_count, aCfg.min_analyst_count)))
    => /\ aOut.upside_score = R(50)
       /\ aOut.sentiment_score = R(50)
       /\ aOut.momentum_score = R(50)
       /\ aOut.coverage_score = R(0)
       /\ aOut.composite_score = R(50)
       /\ aOut.multiplier = R(1)
       /\ \A b \in BaseScores : AnalystAdjusted(b, aOut) = b

\* C11 witness: two analysts under a minimum of three and a range that does
\* not stop at 1, with a target upside, a recommendation and upgrades that
\* would otherwise all give the best sub-scores.
C11_Witness ==
    /\ aOut.present
    /\ aIn.analyst_count = R(2)
    /\ aCfg.min_analyst_count = R(3)
    /\ aCfg.max_multiplier = R(2)
    /\ aIn.analyst_target_upside_pct = R(60)
    /\ aIn.analyst_recommendation_mean = R(1)
    /\ aIn.recent_upgrades_30d = 4
    /\ aIn.recent_downgrades_30d = 0
    /\ aOut.multiplier = R(1)

(***************************************************************************)
(* Claims about run_screen.                                                *)
(***************************************************************************)

\* The scoring loop has run: results_by_ticker holds the candidates.
Scored == pc \in {"size", "rank", "done"}

\* the strategies requested in the call
Requested == {args.strategy_names[i] : i \in 1..Len(args.strategy_names)}

\* what strategy n's own evaluation gives for the ticker of a candidate
Verdict(n, out) == Filter(n, out.ticker, fundamentals[out.ticker])

Candidates == {results_by_ticker[i] : i \in 1..Len(results_by_ticker)}

Returned == {summary.results[i] : i \in 1..Len(summary.results)}

\* C5: for one strategy and no min_score the candidates are exactly the
\* tickers that have fundamentals, passed the filters and passed the
\* strategy's threshold; no returned result has passed = false; and
\* passed_screener counts only passing tickers.
C5_OnlyPassingReturned ==
    summary.returned =>
        /\ (Len(args.strategy_names) = 1 /\ IsNone(args.min_score)) =>
              {out.ticker : out \in Candidates} =
                  {tickers[i] : i \in {j \in 1..Len(tickers) :
                      /\ tickers[j] \in DOMAIN fundamentals
                      /\ Filter(args.strategy_names[1], tickers[j],
                                fundamentals[tickers[j]]).passed}}
        /\ \A out \in Returned : out.screener_result.passed
        /\ summary.passed_screener =
              Cardinality({out \in Candidates : out.screener_result.passed})

\* C6: the returned results are in non-increasing order of final score, and
\* when max_results = n is given they are the first n of the full ordering:
\* min(n, number of candidates) results, none of the omitted candidates
\* having a strictly higher final score than a returned one.
C6_RankedAndTruncated ==
    summary.returned =>
        /\ \A i, j \in 1..Len(summary.results) :
              i < j => ~RLt(summary.results[i].screener_result.score,
                            summary.results[j].screener_result.score)
        /\ args.max_results # <<>> =>
              /\ Len(summary.results) =
                    (IF args.max_results[1] < Len(results_by_ticker)
                     THEN args.max_results[1] ELSE Len(results_by_ticker))
              /\ \A o \in Candidates \ Returned : \A r \in Returned :
                    ~RLt(r.screener_result.score, o.screener_result.score)

\* the pre-multiplier score of a candidate is the greatest of the scores the
\* requested strategies gave its ticker
BaseIsMax(out) ==
    /\ \E n \in Requested : Verdict(n, out).score = out.base_score
    /\ \A n \in Requested : RLe(Verdict(n, out).score, out.base_score)

\* the pre-multiplier score of a candidate is the arithmetic mean of the
\* scores the requested strategies gave its ticker
BaseIsMean(out) ==
    RMul(out.base_score, R(Cardinality(Requested))) =
        SumScores(RunAll(DictKeys(args.strategy_names, {}), out.ticker,
                         fundamentals[out.ticker]))

\* C7: in combine_mode 'union' the combined verdict of every candidate has
\* passed = true iff at least one requested strategy's verdict passed, and
\* its pre-multiplier score is the maximum of the per-strategy scores.
C7_UnionCombination ==
    (Scored /\ args.combine_mode = "union") =>
        \A out \in Candidates :
            /\ out.screener_result.passed
                  <=> (\E n \in Requested : Verdict(n, out).passed)
            /\ BaseIsMax(out)

\* C7 witness: a returned union result for a ticker on which one requested
\* strategy passed and another failed with a lower score.
C7_Witness ==
    /\ summary.returned
    /\ args.combine_mode = "union"
    /\ \E out \in Returned : \E n, m \in Requested :
          /\ Verdict(n, out).passed
          /\ ~Verdict(m, out).passed
          /\ RLt(Verdict(m, out).score, Verdict(n, out).score)
          /\ out.screener_result.passed
          /\ out.base_score = Verdict(n, out).score

\* C8: in combine_mode 'intersection' the combined verdict of every
\* candidate has passed = true iff every requested strategy's verdict passed,
\* and its pre-multiplier score is the arithmetic mean of the per-strategy
\* scores.
C8_IntersectionCombination ==
    (Scored /\ args.combine_mode = "intersection") =>
        \A out \in Candidates :
            /\ out.screener_result.passed
                  <=> (\A n \in Requested : Verdict(n, out).passed)
            /\ BaseIsMean(out)

\* C8 witness: a returned intersection result for a ticker on which one
\* requested strategy passed and another failed, its base score strictly
\* between their scores.
C8_Witness ==
    /\ summary.returned
    /\ args.combine_mode = "intersection"
    /\ \E out \in Returned : \E n, m \in Requested :
          /\ Verdict(n, out).passed
          /\ ~Verdict(m, out).passed
          /\ ~out.screener_result.passed
          /\ RLt(Verdict(m, out).score, out.base_score)
          /\ RLt(out.base_score, Verdict(n, out).score)

\* C9: for every candidate base_score is the combined (union/intersection)
\* score before any analyst adjustment; with analyst scoring enabled the
\* final screener_result.score is base_score x analyst_score.multiplier, the
\* multiplier being the one calculated from the ticker's fundamentals; with
\* it disabled analyst_score is absent and the final score is base_score.
C9_AnalystAdjustment ==
    Scored =>
        \A out \in Candidates :
            /\ IF args.combine_mode = "intersection"
               THEN BaseIsMean(out) ELSE BaseIsMax(out)
            /\ IF args.analyst_scoring_enabled
               THEN /\ out.analyst_score =
                          CalculateFromFundamentals(DefaultAnalystScoring,
                                                    fundamentals[out.ticker])
                    /\ out.screener_result.score =
                          RMul(out.base_score, out.analyst_score.multiplier)
               ELSE /\ ~out.analyst_score.present
                    /\ out.screener_result.score = out.base_score

\* C9 witness: a run with analyst scoring enabled returned a result whose
\* multiplier is below 1 and one whose multiplier is above 1, each with a
\* final score that differs from its base score.
C9_Witness ==
    /\ summary.returned
    /\ args.analyst_scoring_enabled
    /\ \E lo, hi \in Returned :
          /\ RLt(lo.analyst_score.multiplier, R(1))
          /\ RLt(lo.screener_result.score, lo.base_score)
          /\ RLt(R(1), hi.analyst_score.multiplier)
          /\ RLt(hi.base_score, hi.screener_result.score)

(***************************************************************************)
(* Claims about the manager and the fetch phase.                           *)
(***************************************************************************)

\* a name of strategy_names is not registered
UnknownStrategy(strategy_names) ==
    \E i \in 1..Len(strategy_names) :
        strategy_names[i] \notin {"canslim", "minervini", "high_volatility"}

\* the name the manager was constructed with is none of the known universes,
\* in any letter case
UnknownUniverse ==
    /\ manager.universe_name # None
    /\ \A known \in ProviderNames : Lower(manager.universe_name) # known

\* C12: run_screen with an unregistered strategy name raises with no call
\* of get_tickers, of get_fundamentals or of the progress callback made; a
\* manager for an unknown universe name is never constructed, so that nothing
\* is ever fetched for it.
C12_FailFast ==
    /\ (pc = "raised" /\ UnknownStrategy(args.strategy_names)) =>
          /\ calls = NoCalls
          /\ tickers = <<>>
          /\ futures = <<>>
    /\ UnknownStrategy(args.strategy_names) => pc = "raised"
    /\ UnknownUniverse =>
          /\ pc = "rejected"
          /\ ~manager.present
          /\ calls = NoCalls

\* run_screen raised for the strategy name "momentum"
C12_Witness ==
    /\ pc = "raised"
    /\ manager.present
    /\ args.strategy_names = <<"momentum">>

\* what the fetch phase can find: the data of every ticker the source has
\* data for
Fetched(m) ==
    [t \in {u \in DOMAIN m : m[u].fund.present} |-> m[t].fund]

\* the tickers of a list that are scored: those the filters keep
Screened(universe, fund, a) ==
    IF a.apply_filters
    THEN FilterTickers(
             UniverseFilter(ConfigMinPrice, ConfigMinVolume, NoneR, NoneR,
                            a.cap_categories, {}, {}, {}, {}),
             universe, fund)
    ELSE universe

\* the candidates of a universe list, of the data fetched for it and of the
\* arguments, as the loop over the tickers leaves them
ExpectedCandidates(universe, fund, a) ==
    ScoreAll(Screened(universe, fund, a), fund, a)

\* a step of the position sizing keeps the candidates, their scores and
\* their order, and goes on to the ranking
SizingKeepsCandidates ==
    pc = "size" =>
        /\ pc' = "rank"
        /\ Len(results_by_ticker') = Len(results_by_ticker)
        /\ \A i \in 1..Len(results_by_ticker) :
              /\ results_by_ticker'[i].ticker = results_by_ticker[i].ticker
              /\ results_by_ticker'[i].screener_result =
                    results_by_ticker[i].screener_result
              /\ results_by_ticker'[i].screener_scores =
                    results_by_ticker[i].screener_scores

\* the summary holds the candidates sorted and cut to max_results
RankedFromCandidates ==
    /\ summary.returned
    /\ summary.passed_screener = Len(results_by_ticker)
    /\ summary.results =
          Truncate(SortDesc(results_by_ticker), args.max_results)

\* F: the tickers whose fetch fails or returns nothing
FailedFetch == {t \in TickerSet : ~market[t].fund.present}

\* the universe list without the tickers of F
WithoutFailed == SelectSeq(Universe, LAMBDA t : t \notin FailedFetch)

C14_SizingIsolation ==
    /\ [](/\ (pc \in {"rank", "done"} /\ args.calculate_positions) =>
                \A i \in 1..Len(results_by_ticker) :
                    LET output == results_by_ticker[i] IN
                    /\ calls.analyze[output.ticker] = 1
                    /\ (output.stop_recommendation = None)
                          <=> (market[output.ticker].ohlcv # "ok")
          /\ pc = "done" =>
                /\ RankedFromCandidates
                /\ summary.analyzed_positions =
                      Cardinality({i \in 1..Len(summary.results) :
                          summary.results[i].stop_recommendation # None}))
    /\ [][SizingKeepsCandidates /\ (pc = "rank" => pc' = "done")]_vars

\* the analysis of the first candidate failed, the second one was analysed,
\* and both are returned
C14_Witness ==
    /\ pc = "done"
    /\ args.calculate_positions
    /\ Len(results_by_ticker) > 1
    /\ results_by_ticker[1].stop_recommendation = None
    /\ results_by_ticker[2].stop_recommendation # None
    /\ Len(summary.results) = 2
    /\ summary.analyzed_positions = 1

\* C15: during the fetch phase at most max_workers calls of get_fundamentals
\* are running, get_fundamentals has been called once for every ticker whose
\* task has started and never for another, and the phase is left only with
\* every future finished and completed equal to the number of tickers.
C15_BoundedFetch ==
    /\ [](pc = "fetch" =>
            /\ Cardinality(Running(futures)) <= manager.max_workers
            /\ \A t \in TickerSet :
                  calls.get_fundamentals[t] =
                      IF futures[t].state = "PENDING" THEN 0 ELSE 1
            /\ completed = Cardinality(TickerSet \ pending))
    /\ [][(pc = "fetch" /\ pc' # "fetch") =>
            /\ completed = Len(tickers)
            /\ \A t \in TickerSet :
                  /\ futures[t].state = "FINISHED"
                  /\ calls.get_fundamentals[t] = 1]_vars

\* the pool of width 1 is full while a task waits in the queue
C15_Witness ==
    /\ pc = "fetch"
    /\ manager.max_workers = 1
    /\ Cardinality(Running(futures)) = 1
    /\ \E t \in TickerSet : futures[t].state = "PENDING"

\* C16: what the fetch phase stores, the candidates with their scores and
\* their order, and the results returned are those of the universe list, of
\* the outcome of each ticker's fetch and of the arguments, whichever order
\* the fetch futures completed in.
C16_CompletionOrderIndependent ==
    /\ [](/\ pc = "fetch" =>
                fundamentals =
                    [t \in DOMAIN Fetched(market) \ pending |-> market[t].fund]
          /\ pc \in {"score", "size", "rank", "done"} =>
                fundamentals = Fetched(market)
          /\ pc = "size" =>
                results_by_ticker =
                    ExpectedCandidates(Universe, Fetched(market), args)
          /\ pc = "done" => RankedFromCandidates)
    /\ [][SizingKeepsCandidates]_vars

\* the future submitted last was the first to complete and be stored
C16_Witness ==
    /\ pc = "fetch"
    /\ pending = {Universe[1]}
    /\ futures[Universe[1]].state = "RUNNING"
    /\ Universe[Len(Universe)] \in DOMAIN fundamentals
    /\ market[Universe[1]].fund.present

(***************************************************************************)
(* Claims about the pure functions.                                        *)
(***************************************************************************)

\* the call fn of the function called name has returned or raised
Called(name) == fn.name = name /\ fout.raised # "not called"

\* C17: compute_trailing_stop returns, without raising, stop_level =
\* recent_high - multiplier * atr and stop_distance = risk_per_share =
\* current_price - stop_level, which is negative exactly when the price is
\* below the stop; price 100, high 120, atr 5, multiplier 2 give 110 and -10.
C17_TrailingStop ==
    Called("compute_trailing_stop") =>
        /\ fout.raised = None
        /\ fout.stop_level =
              RSub(fn.recent_high, RMul(fn.multiplier, fn.atr))
        /\ fout.stop_distance = RSub(fn.current_price, fout.stop_level)
        /\ fout.risk_per_share = fout.stop_distance
        /\ RLt(fout.stop_distance, R(0))
              <=> RLt(fn.current_price, fout.stop_level)
        /\ (/\ fn.current_price = R(100) /\ fn.recent_high = R(120)
            /\ fn.atr = R(5) /\ fn.multiplier = R(2)) =>
              fout.stop_level = R(110) /\ fout.stop_distance = R(-10)

\* the price 100 is below the stop 110
C17_Witness ==
    /\ Called("compute_trailing_stop")
    /\ fn.current_price = R(100) /\ fn.recent_high = R(120)
    /\ fn.atr = R(5) /\ fn.multiplier = R(2)
    /\ fout.risk_per_share = R(-10)

\* math.floor of a rational
Floor(x) == x[1] \div x[2]

\* what shares_for_risk guarantees whichever way the quotient is rounded
SharesGuarded ==
    /\ RLe(fn.risk_per_share, R(0)) =>
          fout.shares = 0 /\ ~fout.divided
    /\ RLe(R(0), fn.risk_dollars) =>
          /\ fout.shares >= 0
          /\ RLe(RMul(R(fout.shares), fn.risk_per_share), fn.risk_dollars)

\* C18 as stated: shares_for_risk returns floor(riskDollars / riskPerShare)
\* for any riskDollars and any riskPerShare > 0, returns 0 without dividing
\* for riskPerShare <= 0, and for riskDollars >= 0 the result is not negative
\* and result x riskPerShare does not exceed riskDollars.
C18_SharesFloor ==
    Called("shares_for_risk") =>
        /\ SharesGuarded
        /\ RLt(R(0), fn.risk_per_share) =>
              fout.shares = Floor(RDiv(fn.risk_dollars, fn.risk_per_share))

\* C18, amended: as C18 as stated, except that for riskPerShare > 0 the result
\* is floor(riskDollars / riskPerShare) for riskDollars >= 0 and the quotient
\* rounded towards zero, -floor(-riskDollars / riskPerShare), for
\* riskDollars < 0.
C18_SharesTruncated ==
    Called("shares_for_risk") =>
        /\ SharesGuarded
        /\ RLt(R(0), fn.risk_per_share) =>
              fout.shares =
                  IF RLe(R(0), fn.risk_dollars)
                  THEN Floor(RDiv(fn.risk_dollars, fn.risk_per_share))
                  ELSE -Floor(RDiv(RSub(R(0), fn.risk_dollars),
                                   fn.risk_per_share))

\* -5 dollars at 2 per share: -2 shares, where the floor is -3
C18_Witness ==
    /\ Called("shares_for_risk")
    /\ fn.risk_dollars = R(-5)
    /\ fn.risk_per_share = R(2)
    /\ fout.shares = -2

\* C19: for the methods wilder, sma and ema, compute_atr raises the
\* insufficient-data error exactly when fewer than period + 1 rows are given,
\* and otherwise returns a current ATR that is a number and is not negative.
C19_AtrDataRequirement ==
    (Called("compute_atr")
        /\ MethodLower(fn.method) \in {"wilder", "sma", "ema"}) =>
        /\ (fout.raised = "ValueError: Insufficient data")
              <=> (Len(fn.df) < fn.period + 1)
        /\ Len(fn.df) >= fn.period + 1 =>
              /\ fout.raised = None
              /\ ~IsNone(fout.current_atr)
              /\ RLe(R(0), fout.current_atr)

\* exactly period + 1 rows, the last one far above the others
C19_Witness ==
    /\ Called("compute_atr")
    /\ fn.method = "sma"
    /\ fn.period = MaxPeriod
    /\ Len(fn.df) = MaxPeriod + 1
    /\ fn.df[Len(fn.df)] = Bar(R(9), R(8), R(8))
    /\ fout.raised = None
    /\ RLt(R(1), fout.current_atr)

RegimeLabels == <<"low", "normal", "elevated", "extreme">>

\* the position of a label in the order low, normal, elevated, extreme
RegimeRank(label) == CHOOSE i \in 1..4 : RegimeLabels[i] = label

\* the thresholds a call uses
UsedThresholds ==
    IF fn.thresholds = <<>> THEN DefaultThresholds ELSE fn.thresholds[1]

\* the first label, in the order of RegimeLabels, whose threshold is not
\* below the percentile
FirstLabel ==
    RegimeLabels[CHOOSE i \in 1..4 :
        /\ RLe(fn.percentile, UsedThresholds[RegimeLabels[i]])
        /\ \A j \in 1..(i - 1) :
              ~RLe(fn.percentile, UsedThresholds[RegimeLabels[j]])]

\* what classify_regime guarantees for all ascending thresholds
RegimeOrdered ==
    /\ fout.regime = FirstLabel
    /\ \A p2 \in Percentiles :
          RLe(fn.percentile, p2) =>
              RegimeRank(fout.regime)
                  <= RegimeRank(ClassifyRegime(p2, fn.thresholds))
    /\ fn.percentile = R(0) => fout.regime = "low"
    /\ (fn.percentile = R(80) /\ UsedThresholds = DefaultThresholds) =>
          fout.regime = "elevated"

\* C20 as stated: classify_regime returns the first label whose threshold is
\* not below the percentile, is monotone, and gives low for percentile 0,
\* extreme for percentile 100 and, with 25/75/90/100, elevated for 80.
C20_RegimeAsStated ==
    Called("classify_regime") =>
        /\ RegimeOrdered
        /\ fn.percentile = R(100) => fout.regime = "extreme"

\* C20, amended: as C20 as stated, except that percentile 100 gives extreme
\* exactly when the elevated threshold is below 100, and otherwise the first
\* label whose threshold is 100.
C20_RegimeClassification ==
    Called("classify_regime") =>
        /\ RegimeOrdered
        /\ fn.percentile = R(100) =>
              (fout.regime = "extreme"
                  <=> RLt(UsedThresholds.elevated, R(100)))

\* the elevated threshold is 100, and percentile 100 is classified elevated
C20_Witness ==
    /\ Called("classify_regime")
    /\ fn.percentile = R(100)
    /\ fn.thresholds # <<>>
    /\ UsedThresholds.normal = R(75)
    /\ UsedThresholds.elevated = R(100)
    /\ fout.regime = "elevated"

(***************************************************************************)
(* Claims about the fundamentals provider.                                 *)
(***************************************************************************)

\* the bucket of a market cap given in millions of dollars: mega from 200B,
\* large from 10B, mid from 2B, small from 300M, otherwise micro
Bucket(market_cap) ==
    CASE RLe(R(200000), market_cap) -> "mega"
      [] RLe(R(10000), market_cap) /\ RLt(market_cap, R(200000)) -> "large"
      [] RLe(R(2000), market_cap) /\ RLt(market_cap, R(10000)) -> "mid"
      [] RLe(R(300), market_cap) /\ RLt(market_cap, R(2000)) -> "small"
      [] OTHER -> "micro"

\* C21: every FundamentalData that get_fundamentals returns, built by a fetch
\* or restored from a cache entry, has the market_cap_category that is the
\* bucket of its market_cap; a snapshot without a market cap has no category.
C21_CategoryMatchesMarketCap ==
    prov.returned.present =>
        prov.returned.market_cap_category =
            IF IsNone(prov.returned.market_cap) THEN None
            ELSE Bucket(prov.returned.market_cap)

(***************************************************************************)
(* Claims about the phases of run_screen.                                  *)
(***************************************************************************)

RECURSIVE AnalysesUpTo(_)
\* stop analyses issued for the first n tickers of the universe
AnalysesUpTo(n) ==
    IF n = 0 THEN 0 ELSE calls.analyze[Universe[n]] + AnalysesUpTo(n - 1)

StopAnalyses == AnalysesUpTo(Len(Universe))

\* C22: position sizing comes after ranking, so stop analyses are issued only
\* for the candidates that survive sorting and truncation: a finished run has
\* issued no more stop analyses than it returns candidates.
C22_SizingAfterRanking ==
    pc = "done" => StopAnalyses <= Len(summary.results)

(***************************************************************************)
(* Claims about the rate limit of the fetch.                               *)
(***************************************************************************)

\* C23: from the moment the 50k-th completion is observed until the pause
\* ends, no worker starts a new get_fundamentals call.
C23_PoolPaused ==
    [][pool.sleeping => pool'.queued = pool.queued]_vars

(***************************************************************************)
(* Claims about the combination of the verdicts.                           *)
(***************************************************************************)

\* the place in strategy_names, as the caller gave it, of the first strategy
\* whose own score for the candidate's ticker is the greatest
FirstBest(out) ==
    CHOOSE i \in 1..Len(args.strategy_names) :
        /\ \A n \in Requested :
              RLe(Verdict(n, out).score, Verdict(args.strategy_names[i], out).score)
        /\ \A j \in 1..(i - 1) :
              RLt(Verdict(args.strategy_names[j], out).score,
                  Verdict(args.strategy_names[i], out).score)

\* several of the requested strategies give the candidate's ticker the
\* greatest score, with different criteria lists
Tied(out) ==
    \E n \in Requested :
        /\ n # args.strategy_names[FirstBest(out)]
        /\ Verdict(n, out).score =
              Verdict(args.strategy_names[FirstBest(out)], out).score
        /\ Verdict(n, out).passed_criteria #
              Verdict(args.strategy_names[FirstBest(out)], out).passed_criteria

\* C24: in union mode the combined verdict of a candidate carries the criteria
\* lists of the first strategy, in the order of strategy_names, that attains
\* the maximum score.
C24_UnionTieBreak ==
    []((pc = "size" /\ args.combine_mode = "union") =>
          \A out \in Candidates :
              LET first == Verdict(args.strategy_names[FirstBest(out)], out)
              IN  /\ out.screener_result.passed_criteria = first.passed_criteria
                  /\ out.screener_result.failed_criteria = first.failed_criteria
                  /\ out.screener_result.ticker = first.ticker)

\* canslim and minervini tie on a candidate; minervini was named first and
\* its verdict is the combined one
C24_Witness ==
    /\ pc = "size"
    /\ args.combine_mode = "union"
    /\ \E out \in Candidates :
          /\ Tied(out)
          /\ args.strategy_names[FirstBest(out)] = "minervini"
          /\ Verdict("canslim", out).score = Verdict("minervini", out).score
          /\ out.screener_result.passed_criteria =
                Verdict("minervini", out).passed_criteria

\* the tickers of a list
Listed(ts) == {ts[i] : i \in 1..Len(ts)}

\* C25: every ticker that filter_tickers returns has fundamentals, a price of
\* at least min_price and a 50-day average volume of at least min_volume; when
\* a cap-category allow-list is given its market_cap_category is in the list;
\* when a sector (industry) include-list is given its sector (industry) is in
\* it whatever the exclude-list says, and otherwise its sector (industry) is
\* not in the exclude-list; the output keeps the order of the input.
C25_FilterSound ==
    Called("filter_tickers") =>
        LET uf == fn.uf
            fd == fn.fundamental_data
        IN  /\ \A t \in Listed(fout.filtered) :
                 /\ t \in DOMAIN fd
                 /\ RLe(uf.min_price, fd[t].current_price)
                 /\ RLe(uf.min_volume, fd[t].avg_volume_50d)
                 /\ uf.cap_categories # {}
                       => fd[t].market_cap_category \in uf.cap_categories
                 /\ IF uf.sectors # {} THEN fd[t].sector \in uf.sectors
                    ELSE fd[t].sector \notin uf.exclude_sectors
                 /\ IF uf.industries # {} THEN fd[t].industry \in uf.industries
                    ELSE fd[t].industry \notin uf.exclude_industries
            /\ fout.filtered
                   = SelectSeq(fn.tickers, LAMBDA t : t \in Listed(fout.filtered))


\* a step in which clear_expired ran, called on the instance or by __init__
Swept ==
    \/ ret'.op = "clear_expired" /\ ncalls' = ncalls + 1
    \/ cm'.sweeps = cm.sweeps + 1

\* C26: clear_expired deletes exactly the entries that are expired or
\* unreadable, leaves every readable unexpired entry as it was and returns the
\* number of entries it deleted; a second call right after the first returns
\* 0; and __init__ runs it once, when the cache manager is first constructed.
C26_ClearExpired ==
    [][/\ Swept =>
            /\ DOMAIN files' =
                  {k \in DOMAIN files :
                      Parses(files[k]) /\ ~IsExpired(EntryOf(files[k]), now)}
            /\ \A k \in DOMAIN files' : files'[k] = files[k]
       /\ (ret'.op = "clear_expired" /\ ncalls' = ncalls + 1) =>
            /\ ret'.n = Cardinality(DOMAIN files \ DOMAIN files')
            /\ (ret.at = now /\ ret.op = "clear_expired") => ret'.n = 0
            /\ (ret.at = now /\ ret.op = "CacheManager" /\ ncalls = 1) => ret'.n = 0
       /\ cm'.sweeps # cm.sweeps => ~cm.initialized /\ cm'.sweeps = 1
       /\ cm'.initialized => cm'.sweeps = 1]_vars

\* clear_expired deleted one file and kept the other
C26_Witness ==
    /\ ret.op = "clear_expired"
    /\ ret.n = 1
    /\ Cardinality(DOMAIN files) = 1
    /\ cm = CmConstructed


\* a step that is a call of op on the cache
CallOf(op) == ncalls' = ncalls + 1 /\ ret'.op = op

\* C27: the counters start at zero; every get adds one to exactly one of hits
\* and misses, to hits exactly when it returned a stored value; every set that
\* returned True, and no other set, adds one to sets; and no other operation
\* (invalidate, clear_expired, clear_all, get_stats, get_entry_info) changes
\* hits, misses or sets: so hits + misses is the number of get calls made and
\* sets the number of set calls that returned True.
C27_Counters ==
    /\ [](ncalls = 0 => (hits = 0 /\ misses = 0 /\ sets = 0))
    /\ [][/\ CallOf("get") =>
               /\ sets' = sets
               /\ IF ret'.hit THEN hits' = hits + 1 /\ misses' = misses
                  ELSE hits' = hits /\ misses' = misses + 1
               /\ ret'.hit <=> ret'.data # None
          /\ CallOf("set") =>
               /\ hits' = hits /\ misses' = misses
               /\ sets' = IF ret'.ok THEN sets + 1 ELSE sets
          /\ ~(CallOf("get") \/ CallOf("set")) =>
               hits' = hits /\ misses' = misses /\ sets' = sets]_vars

\* a successful set, a hit and a miss were counted
C27_Witness ==
    /\ ret.op = "get"
    /\ ncalls = 3
    /\ hits = 1
    /\ misses = 1
    /\ sets = 1


\* C28: for every candidate and every requested strategy s, screener_scores[s]
\* is the score the evaluation of s returned for the ticker: neither the
\* combination step nor the analyst multiplier changes a recorded value.
C28_ScoresAsEvaluated ==
    [](pc = "size" =>
          \A out \in Candidates :
              \A n \in DOMAIN out.screener_scores :
                  out.screener_scores[n] = Verdict(n, out).score)


\* a step that is a call of get_fundamentals
Asked == prov'.calls = prov.calls + 1

\* the call of this step is not forced and comes while the entry written by
\* the fetch f (prov.first or prov.stored) is within its TTL
ServedFrom(f) ==
    Asked /\ prov.use_cache /\ ~prov'.forced /\ f.present
          /\ now <= f.at + FundamentalsTtl

\* the call of this step asked the source and got nothing
FetchFailed(p) == p.fetched /\ ~p.returned.present

\* a failed fetch leaves every cache file as it was and writes none
WritesNoEntry ==
    /\ sets' = sets
    /\ DOMAIN files' \subseteq DOMAIN files
    /\ \A k \in DOMAIN files' : files'[k] = files[k]

\* C29 as stated: once a fetch has succeeded with caching enabled, every
\* later call without force_refresh within 24 hours of it asks the source
\* nothing and returns the snapshot that first fetch returned; a fetch that
\* fails writes no cache entry, and the call after it fetches again.
C29_NotRefetchedAsStated ==
    [][/\ ServedFrom(prov.first) =>
               /\ prov'.source_calls = prov.source_calls
               /\ prov'.returned = prov.first.data
       /\ (Asked /\ FetchFailed(prov')) => WritesNoEntry
       /\ (Asked /\ FetchFailed(prov)) => prov'.fetched]_vars

\* C29: once a fetch has succeeded with caching enabled, every later call
\* without force_refresh within 24 hours of the latest successful fetch asks
\* the source nothing and returns, field for field, the snapshot that fetch
\* returned; a fetch that fails or finds nothing writes no cache entry, and
\* the call after it fetches again unless it is served from the entry an
\* earlier fetch left.
C29_NotRefetched ==
    [][/\ ServedFrom(prov.stored) =>
               /\ prov'.source_calls = prov.source_calls
               /\ prov'.returned = prov.stored.data
       /\ (Asked /\ FetchFailed(prov')) => WritesNoEntry
       /\ (Asked /\ FetchFailed(prov) /\ ~ServedFrom(prov.stored))
               => prov'.fetched]_vars

\* a call was served from the cache after the market had moved, and what it
\* returned is the snapshot of the forced refresh, not of the first fetch
C29_Witness ==
    /\ prov.use_cache
    /\ ~prov.fetched
    /\ ~prov.forced
    /\ prov.returned.present
    /\ prov.returned = prov.stored.data
    /\ prov.stored.data # prov.first.data
    /\ source.present
    /\ Snapshot(source, now) # prov.returned


\* max(high - low, |high - prevClose|, |low - prevClose|) for a bar i > 1
LaterTrueRange(df, i) ==
    LET hl == RSub(df[i].High, df[i].Low)
        hpc == RAbs(RSub(df[i].High, df[i - 1].Close))
        lpc == RAbs(RSub(df[i].Low, df[i - 1].Close))
    IN  IF RLe(hpc, hl) /\ RLe(lpc, hl) THEN hl
        ELSE IF RLe(lpc, hpc) THEN hpc ELSE lpc

\* C30: compute_true_range gives the first bar no defined True Range (NaN) and
\* every later bar max(high - low, |high - prevClose|, |low - prevClose|); so
\* the seed of the Wilder series, the entry at position period, is the mean
\* of the True Ranges of the bars 2..period, those that have a prior close.
C30_FirstBarTrueRange ==
    /\ Called("compute_true_range") =>
          \A i \in 1..Len(fn.df) :
              fout.true_range[i] = IF i = 1 THEN NaN ELSE LaterTrueRange(fn.df, i)
    /\ (Called("compute_atr_wilder") /\ 2 <= fn.period /\ fn.period <= Len(fn.df)) =>
          fout.atr[fn.period]
              = Mean([i \in 1..(fn.period - 1) |-> LaterTrueRange(fn.df, i + 1)])

====
